---- MODULE Spec2Model ----
(***************************************************************************)
(* Model of src/Pile_DisCal.py: the pile-group displacement solver, the    *)
(* per-pile force loop, the ultimate-capacity estimate and the safety      *)
(* judgment, as the straight-line script the file is.                      *)
(*                                                                         *)
(* Numbers.  The script computes in IEEE doubles; the model computes in    *)
(* exact rationals over arbitrary-size integers (TLC's own integers are    *)
(* 32 bit, and the shipped constants overflow them in a 3x3 determinant).  *)
(* A rational is [n |-> numerator, d |-> denominator > 0], an integer is   *)
(* [sg |-> sign, mag |-> little-endian limbs].  Rounding of doubles is not *)
(* modelled; the non-finite results of a float64 division (inf, nan) are.  *)
(***************************************************************************)
EXTENDS Integers, Sequences, FiniteSets, TLC

\* ------------------------------------------------------------------------
\* Arbitrary-size naturals: little-endian limb sequences, no high zero limb
\* ------------------------------------------------------------------------
Base == 100 * 100

Rest(s) == IF s = <<>> THEN <<>> ELSE Tail(s)
Low(s) == IF s = <<>> THEN 0 ELSE Head(s)

RECURSIVE MagOfNat(_)
MagOfNat(k) == IF k = 0 THEN <<>> ELSE <<k % Base>> \o MagOfNat(k \div Base)

RECURSIVE MagAdd(_, _, _)
MagAdd(a, b, c) ==
    IF a = <<>> /\ b = <<>>
    THEN (IF c = 0 THEN <<>> ELSE <<c>>)
    ELSE <<(Low(a) + Low(b) + c) % Base>>
         \o MagAdd(Rest(a), Rest(b), (Low(a) + Low(b) + c) \div Base)

RECURSIVE MagTrim(_)
MagTrim(a) ==
    IF a = <<>> THEN <<>>
    ELSE IF a[Len(a)] = 0 THEN MagTrim(SubSeq(a, 1, Len(a) - 1))
    ELSE a

\* a - b - w for a >= b + w, before trimming
RECURSIVE MagSubRaw(_, _, _)
MagSubRaw(a, b, w) ==
    IF a = <<>> THEN <<>>
    ELSE <<(Low(a) - Low(b) - w) % Base>>
         \o MagSubRaw(Rest(a), Rest(b), IF Low(a) - Low(b) - w < 0 THEN 1 ELSE 0)

MagSub(a, b) == MagTrim(MagSubRaw(a, b, 0))

\* -1, 0, 1 as a < b, a = b, a > b
RECURSIVE MagCmpFrom(_, _, _)
MagCmpFrom(a, b, i) ==
    IF i = 0 THEN 0
    ELSE IF a[i] < b[i] THEN -1
    ELSE IF a[i] > b[i] THEN 1
    ELSE MagCmpFrom(a, b, i - 1)

MagCmp(a, b) ==
    IF Len(a) < Len(b) THEN -1
    ELSE IF Len(a) > Len(b) THEN 1
    ELSE MagCmpFrom(a, b, Len(a))

RECURSIVE MagMulLimb(_, _, _)
MagMulLimb(a, k, c) ==
    IF a = <<>>
    THEN (IF c = 0 THEN <<>> ELSE <<c>>)
    ELSE <<(Head(a) * k + c) % Base>>
         \o MagMulLimb(Tail(a), k, (Head(a) * k + c) \div Base)

MagShift(a) == IF a = <<>> THEN <<>> ELSE <<0>> \o a

RECURSIVE MagMulLong(_, _)
MagMulLong(a, b) ==
    IF b = <<>> THEN <<>>
    ELSE MagAdd(IF Head(b) = 0 THEN <<>> ELSE MagMulLimb(a, Head(b), 0),
                MagShift(MagMulLong(a, Tail(b))), 0)

MagMul(a, b) ==
    IF a = <<>> \/ b = <<>> THEN <<>>
    ELSE IF Len(a) = 1 /\ Len(b) = 1 THEN MagOfNat(a[1] * b[1])
    ELSE MagMulLong(a, b)

\* the largest q in lo..hi with q * b <= v, given lo * b <= v
RECURSIVE MagQuotDigit(_, _, _, _)
MagQuotDigit(v, b, lo, hi) ==
    IF lo = hi THEN lo
    ELSE MagQuotDigit(v, b,
             IF MagCmp(MagMulLimb(b, (lo + hi + 1) \div 2, 0), v) <= 0
             THEN (lo + hi + 1) \div 2 ELSE lo,
             IF MagCmp(MagMulLimb(b, (lo + hi + 1) \div 2, 0), v) <= 0
             THEN hi ELSE ((lo + hi + 1) \div 2) - 1)

\* r * Base + limb
MagPush(limb, r) ==
    IF r = <<>> THEN (IF limb = 0 THEN <<>> ELSE <<limb>>) ELSE <<limb>> \o r

MagLess(v, b, q) == IF q = 0 THEN v ELSE MagSub(v, MagMulLimb(b, q, 0))

\* long division of the limbs a[1..k] below the running remainder r, by b # 0,
\* the quotient limbs found so far being acc: <<quotient limbs, remainder>>
RECURSIVE MagDivFrom(_, _, _, _, _)
MagDivNext(a, k, b, acc, v, q) ==
    MagDivFrom(a, k - 1, MagLess(v, b, q), b, <<q>> \o acc)

MagDivDigit(a, k, b, acc, v) ==
    MagDivNext(a, k, b, acc, v, MagQuotDigit(v, b, 0, Base - 1))

MagDivFrom(a, k, r, b, acc) ==
    IF k = 0 THEN <<acc, r>> ELSE MagDivDigit(a, k, b, acc, MagPush(a[k], r))

MagDiv(a, b) == MagTrim(MagDivFrom(a, Len(a), <<>>, b, <<>>)[1])
MagMod(a, b) == MagDivFrom(a, Len(a), <<>>, b, <<>>)[2]

RECURSIVE MagGcd(_, _)
MagGcd(a, b) == IF b = <<>> THEN a ELSE MagGcd(b, MagMod(a, b))

\* ------------------------------------------------------------------------
\* Signed integers
\* ------------------------------------------------------------------------
Big(k) ==
    IF k = 0 THEN [sg |-> 0, mag |-> <<>>]
    ELSE IF k > 0 THEN [sg |-> 1, mag |-> MagOfNat(k)]
    ELSE [sg |-> -1, mag |-> MagOfNat(-k)]

BigZero == Big(0)
BigOne == Big(1)

BigNeg(a) == [sg |-> -a.sg, mag |-> a.mag]

\* a + b for a and b of opposite signs, c comparing their magnitudes
BigDiff(a, b, c) ==
    IF c = 0 THEN BigZero
    ELSE [sg |-> IF c > 0 THEN a.sg ELSE b.sg,
          mag |-> MagSub(IF c > 0 THEN a.mag ELSE b.mag,
                         IF c > 0 THEN b.mag ELSE a.mag)]

BigAdd(a, b) ==
    IF a.sg = 0 THEN b
    ELSE IF b.sg = 0 THEN a
    ELSE IF a.sg = b.sg THEN [sg |-> a.sg, mag |-> MagAdd(a.mag, b.mag, 0)]
    ELSE BigDiff(a, b, MagCmp(a.mag, b.mag))

BigSub(a, b) == BigAdd(a, BigNeg(b))

BigMul(a, b) ==
    IF a.sg = 0 \/ b.sg = 0 THEN BigZero
    ELSE [sg |-> a.sg * b.sg, mag |-> MagMul(a.mag, b.mag)]

\* the sign of a - b
BigCmp(a, b) == BigSub(a, b).sg

\* ------------------------------------------------------------------------
\* Rationals: the values of the script's float variables
\* ------------------------------------------------------------------------
RECURSIVE Gcd(_, _)
Gcd(a, b) == IF b = 0 THEN a ELSE Gcd(b, a % b)

\* the value of at most two limbs
MagToNat(m) ==
    IF m = <<>> THEN 0 ELSE IF Len(m) = 1 THEN m[1] ELSE m[1] + Base * m[2]

\* sg * (p / g) / (q / g) for a common divisor g
Reduced(sg, p, q, g) ==
    IF g = <<1>> THEN [n |-> [sg |-> sg, mag |-> p], d |-> [sg |-> 1, mag |-> q]]
    ELSE [n |-> [sg |-> sg, mag |-> MagDiv(p, g)],
          d |-> [sg |-> 1, mag |-> MagDiv(q, g)]]

ReducedNat(sg, p, q, g) ==
    [n |-> [sg |-> sg, mag |-> MagOfNat(p \div g)],
     d |-> [sg |-> 1, mag |-> MagOfNat(q \div g)]]

\* lowest terms of sg * p / q, by machine arithmetic when both are small
Lowest(sg, p, q) ==
    IF sg = 0 THEN [n |-> BigZero, d |-> BigOne]
    ELSE IF Len(p) <= 2 /\ Len(q) <= 2
    THEN ReducedNat(sg, MagToNat(p), MagToNat(q), Gcd(MagToNat(p), MagToNat(q)))
    ELSE Reduced(sg, p, q, MagGcd(p, q))

QNorm(a) == Lowest(a.n.sg, a.n.mag, a.d.mag)

Frac(p, q) == QNorm([n |-> Big(p), d |-> Big(q)])
Q(k) == [n |-> Big(k), d |-> BigOne]

QZero == Q(0)

QNeg(a) == [n |-> BigNeg(a.n), d |-> a.d]

QAdd(a, b) ==
    IF a.n.sg = 0 THEN b
    ELSE IF b.n.sg = 0 THEN a
    ELSE QNorm([n |-> BigAdd(BigMul(a.n, b.d), BigMul(b.n, a.d)),
                d |-> BigMul(a.d, b.d)])

QSub(a, b) == QAdd(a, QNeg(b))

QMul(a, b) ==
    IF a.n.sg = 0 \/ b.n.sg = 0 THEN QZero
    ELSE QNorm([n |-> BigMul(a.n, b.n), d |-> BigMul(a.d, b.d)])

\* a / b for b # 0
QDiv(a, b) ==
    IF a.n.sg = 0 THEN QZero
    ELSE QNorm([n |-> [sg |-> a.n.sg * b.n.sg, mag |-> MagMul(a.n.mag, b.d.mag)],
                d |-> [sg |-> 1, mag |-> MagMul(a.d.mag, b.n.mag)]])

QSign(a) == a.n.sg

\* the sign of a - b
QCmp(a, b) ==
    BigCmp(BigMul(a.n, b.d), BigMul(b.n, a.d))

QEq(a, b) == QCmp(a, b) = 0
QLe(a, b) == QCmp(a, b) <= 0
QLt(a, b) == QCmp(a, b) < 0
QGe(a, b) == QCmp(a, b) >= 0

QMin(a, b) == IF QLt(b, a) THEN b ELSE a

\* ------------------------------------------------------------------------
\* Non-finite float64 results: a value is [k |-> "num", v |-> rational],
\* or k is "inf", "-inf" or "nan" (v unused); k is "ZeroDivisionError" for
\* a division that raises instead of returning
\* ------------------------------------------------------------------------
Num(a) == [k |-> "num", v |-> a]
Inf == [k |-> "inf", v |-> QZero]
NegInf == [k |-> "-inf", v |-> QZero]
NaN == [k |-> "nan", v |-> QZero]
ZeroDivisionError == [k |-> "ZeroDivisionError", v |-> QZero]

\* float / numpy.float64: a zero divisor gives inf, -inf or nan (with a
\* RuntimeWarning), never ZeroDivisionError
NpTrueDivide_Python(a, b) ==
    IF QSign(b) # 0 THEN Num(QDiv(a, b)) ELSE ZeroDivisionError

NpTrueDivide(a, b) ==
    IF QSign(b) # 0 THEN Num(QDiv(a, b))
    ELSE IF QSign(a) > 0 THEN Inf
    ELSE IF QSign(a) < 0 THEN NegInf
    ELSE NaN

\* x >= c for a float x and a finite c: every comparison with nan is False
FloatGe(x, c) ==
    CASE x.k = "num" -> QGe(x.v, c)
      [] x.k = "inf" -> TRUE
      [] OTHER -> FALSE

\* ------------------------------------------------------------------------
\* 1. Project input: the shipped constants
\* ------------------------------------------------------------------------
H0 == 1520
V0 == 4200
M0 == 2310
Kv == 131567
K1 == 16381
K2 == 9922
K3 == 9922
K4 == 14020
ShippedPiles == <<Frac(-5, 4), Frac(-5, 4), Frac(-5, 4), Frac(-5, 4), Frac(-5, 4),
                  Frac(-5, 4), Frac(-5, 4), Frac(5, 4), Frac(5, 4), Frac(5, 4),
                  Frac(5, 4), Frac(5, 4), Frac(5, 4), Frac(5, 4)>>
ShippedTheta == "0"
ShippedD == Frac(239, 1000)
ShippedLayers == <<[type |-> "sand", Li |-> Frac(65, 10), N |-> 10],
                   [type |-> "sand", Li |-> Frac(112, 10), N |-> 23],
                   [type |-> "sand", Li |-> Frac(13, 10), N |-> 50]>>
ShippedTip == [standard |-> "Japan_2017", method |-> "Bored",
               soil_type |-> "sand", N_val |-> 50]
ShippedStiffness == <<Kv, K1, K2, K3, K4>>
ShippedLoads == <<H0, V0, M0>>

\* ------------------------------------------------------------------------
\* 2. Functions
\* ------------------------------------------------------------------------
\* math.pi, to the precision of 355/113
Pi == Frac(355, 113)

get_geometry(d) == <<QMul(Pi, d), QDiv(QMul(Pi, QMul(d, d)), Q(4))>>

\* min(rate * N_val, cap) (lines 60, 63)
CappedRate_NoCap(rate, N_val, cap) == Q(rate * N_val)

CappedRate(rate, N_val, cap) == QMin(Q(rate * N_val), Q(cap))

\* line 73: a qd of 0 becomes the fixed default
DefaultFixed_Off(rule) == rule

DefaultFixed(rule) ==
    IF QSign(rule[1]) = 0 THEN <<Q(3000), "Default Fixed">> ELSE rule

get_qd_value(standard, method, soil_type, N_val) ==
    LET rule ==
            IF standard = "Japan_2017"
            THEN IF method = "Bored"
                 THEN IF soil_type \in {"sand", "clay"}
                      THEN <<CappedRate(110, N_val, 3300), "110N (Max 3300)">>
                      ELSE IF soil_type = "gravel"
                      THEN <<CappedRate(160, N_val, 8000), "160N (Max 8000)">>
                      ELSE <<QZero, "">>
                 ELSE <<QZero, "">>
            ELSE IF standard = "Taiwan_Building"
            THEN IF method = "Bored" /\ soil_type = "sand"
                 THEN LET eff_N == IF N_val < 50 THEN N_val ELSE 50
                      IN  <<QMul(QMul(Frac(75, 10), Q(eff_N)), Frac(981, 100)),
                            "7.5N tf/m2">>
                 ELSE <<QZero, "">>
            ELSE <<QZero, "">>
    IN  DefaultFixed(rule)

\* np.sin, np.cos of the batter angle: 0 is exact, the other angles are
\* the 3-4-5 triangle's
NpSin(theta_rad) ==
    CASE theta_rad = "0" -> QZero
      [] theta_rad = "atan(3/4)" -> Frac(3, 5)
      [] theta_rad = "-atan(3/4)" -> Frac(-3, 5)

NpCos(theta_rad) ==
    CASE theta_rad = "0" -> Q(1)
      [] theta_rad = "atan(3/4)" -> Frac(4, 5)
      [] theta_rad = "-atan(3/4)" -> Frac(4, 5)

RECURSIVE NpSum(_)
NpSum(arr) == IF arr = <<>> THEN QZero ELSE QAdd(Head(arr), NpSum(Tail(arr)))

Sq(a) == QMul(a, a)

Det2(a, b, c, d) == QSub(QMul(a, d), QMul(b, c))

Det3(A) ==
    QAdd(QSub(QMul(A[1][1], Det2(A[2][2], A[2][3], A[3][2], A[3][3])),
              QMul(A[1][2], Det2(A[2][1], A[2][3], A[3][1], A[3][3]))),
         QMul(A[1][3], Det2(A[2][1], A[2][2], A[3][1], A[3][2])))

\* A with column c replaced by the vector b
WithColumn(A, c, b) ==
    LET Row(r) == <<IF c = 1 THEN b[r] ELSE A[r][1],
                    IF c = 2 THEN b[r] ELSE A[r][2],
                    IF c = 3 THEN b[r] ELSE A[r][3]>>
    IN  <<Row(1), Row(2), Row(3)>>

\* np.linalg.solve(A, b) for a 3x3 A: the solution of A x = b, or
\* LinAlgError when A is singular
Cramer(A, b, det) ==
    IF QSign(det) = 0
    THEN [raised |-> TRUE, sol |-> <<QZero, QZero, QZero>>]
    ELSE [raised |-> FALSE,
          sol |-> <<QDiv(Det3(WithColumn(A, 1, b)), det),
                    QDiv(Det3(WithColumn(A, 2, b)), det),
                    QDiv(Det3(WithColumn(A, 3, b)), det)>>]

NpLinalgSolve(A, b) == Cramer(A, b, Det3(A))

F_vec_Globals(loads) == <<Q(H0), Q(V0), Q(M0)>>

\* the vertical force first
F_vec_VerticalFirst(loads) == <<Q(loads[2]), Q(loads[1]), Q(loads[3])>>

F_vec(loads) == <<Q(loads[1]), Q(loads[2]), Q(loads[3])>>

\* the terms of the matrix (lines 82-108); np.sum adds the elementwise
\* expression over the piles
term_xx(K_vals, theta_rad) ==
    QAdd(QMul(Q(K_vals[2]), Sq(NpCos(theta_rad))),
         QMul(Q(K_vals[1]), Sq(NpSin(theta_rad))))

Axx_OnePile(K_vals, x_arr, theta_rad) == term_xx(K_vals, theta_rad)

Axx(K_vals, x_arr, theta_rad) == QMul(term_xx(K_vals, theta_rad), Q(Len(x_arr)))

term_xy(K_vals, theta_rad) ==
    QMul(QMul(QSub(Q(K_vals[1]), Q(K_vals[2])), NpSin(theta_rad)), NpCos(theta_rad))

Axy(K_vals, x_arr, theta_rad) == QMul(term_xy(K_vals, theta_rad), Q(Len(x_arr)))

\* the offset-independent part added once, not once per pile
Ax_a_ConstantOnce(K_vals, x_arr, theta_rad) ==
    QSub(NpSum([p \in 1..Len(x_arr) |->
             QMul(QMul(QMul(QSub(Q(K_vals[1]), Q(K_vals[2])), x_arr[p]),
                       NpSin(theta_rad)),
                  NpCos(theta_rad))]),
         QMul(Q(K_vals[3]), NpCos(theta_rad)))

Ax_a(K_vals, x_arr, theta_rad) ==
    NpSum([p \in 1..Len(x_arr) |->
        QSub(QMul(QMul(QMul(QSub(Q(K_vals[1]), Q(K_vals[2])), x_arr[p]),
                       NpSin(theta_rad)),
                  NpCos(theta_rad)),
             QMul(Q(K_vals[3]), NpCos(theta_rad)))])

term_yy(K_vals, theta_rad) ==
    QAdd(QMul(Q(K_vals[1]), Sq(NpCos(theta_rad))),
         QMul(Q(K_vals[2]), Sq(NpSin(theta_rad))))

Ayy_OnePile(K_vals, x_arr, theta_rad) == term_yy(K_vals, theta_rad)

Ayy(K_vals, x_arr, theta_rad) == QMul(term_yy(K_vals, theta_rad), Q(Len(x_arr)))

Ay_a_FirstOffset(K_vals, x_arr, theta_rad) ==
    NpSum([p \in 1..Len(x_arr) |->
        QAdd(QMul(term_yy(K_vals, theta_rad), x_arr[1]),
             QMul(Q(K_vals[3]), NpSin(theta_rad)))])

Ay_a(K_vals, x_arr, theta_rad) ==
    NpSum([p \in 1..Len(x_arr) |->
        QAdd(QMul(term_yy(K_vals, theta_rad), x_arr[p]),
             QMul(Q(K_vals[3]), NpSin(theta_rad)))])

Aa_a(K_vals, x_arr, theta_rad) ==
    NpSum([p \in 1..Len(x_arr) |->
        QAdd(QAdd(QMul(term_yy(K_vals, theta_rad), Sq(x_arr[p])),
                  QMul(QMul(QAdd(Q(K_vals[3]), Q(K_vals[4])), x_arr[p]),
                       NpSin(theta_rad))),
             Q(K_vals[5]))])

K_mat_Asymmetric(K_vals, x_arr, theta_rad) ==
    <<<<Axx(K_vals, x_arr, theta_rad), Axy(K_vals, x_arr, theta_rad),
        Ax_a(K_vals, x_arr, theta_rad)>>,
      <<Axy(K_vals, x_arr, theta_rad), Ayy(K_vals, x_arr, theta_rad),
        Ay_a(K_vals, x_arr, theta_rad)>>,
      <<Ay_a(K_vals, x_arr, theta_rad), Ay_a(K_vals, x_arr, theta_rad),
        Aa_a(K_vals, x_arr, theta_rad)>>>>

\* K_mat (lines 111-115)
K_mat(K_vals, x_arr, theta_rad) ==
    <<<<Axx(K_vals, x_arr, theta_rad), Axy(K_vals, x_arr, theta_rad),
        Ax_a(K_vals, x_arr, theta_rad)>>,
      <<Axy(K_vals, x_arr, theta_rad), Ayy(K_vals, x_arr, theta_rad),
        Ay_a(K_vals, x_arr, theta_rad)>>,
      <<Ax_a(K_vals, x_arr, theta_rad), Ay_a(K_vals, x_arr, theta_rad),
        Aa_a(K_vals, x_arr, theta_rad)>>>>

\* the function's outcome (lines 116-122): the pair (sol, K) it returns,
\* fallback telling the list [0, 0, 0] of the except branch from a solved
\* array; raised when an exception leaves the function
TryExcept_NoExcept(K, r) ==
    [sol |-> r.sol, K |-> K, fallback |-> FALSE, raised |-> r.raised]

\* lines 118-122: the outcome r of the solve, LinAlgError caught
TryExcept(K, r) ==
    IF r.raised
    THEN [sol |-> <<QZero, QZero, QZero>>, K |-> K, fallback |-> TRUE,
          raised |-> FALSE]
    ELSE [sol |-> r.sol, K |-> K, fallback |-> FALSE, raised |-> FALSE]

\* lines 111-122, K being K_mat
TrySolve(K, loads) == TryExcept(K, NpLinalgSolve(K, F_vec(loads)))

solve_structure(K_vals, x_arr, loads, theta_rad) ==
    TrySolve(K_mat(K_vals, x_arr, theta_rad), loads)

\* max(PN_list) for a non-empty list: the first of the largest elements
RECURSIVE PyMaxFrom(_, _, _)
PyMaxFrom(list, k, best) ==
    IF k > Len(list) THEN best
    ELSE PyMaxFrom(list, k + 1, IF QLt(best, list[k]) THEN list[k] ELSE best)

\* the force of the first printed row only
PyMax_FirstRow(list) == list[1]

PyMax(list) == PyMaxFrom(list, 2, list[1])

Verdict_Strict(f) ==
    IF FloatGe(f, Q(3)) /\ f # Num(Q(3)) THEN "OK"
    ELSE IF FloatGe(f, Q(2)) /\ f # Num(Q(2)) THEN "marginal"
    ELSE "NG"

\* the verdict printed for a factor of safety
Verdict(f) ==
    IF FloatGe(f, Q(3)) THEN "OK"
    ELSE IF FloatGe(f, Q(2)) THEN "marginal"
    ELSE "NG"

\* ------------------------------------------------------------------------
\* 3. Main execution: the state of the script
\* ------------------------------------------------------------------------
VARIABLES
    loads_inputs,      \* [H0, V0, M0]
    stiffness_inputs,  \* (Kv, K1, K2, K3, K4)
    x_coords,          \* pile offsets
    theta,             \* batter angle
    D,                 \* pile diameter
    soil_layers,       \* layers: type, Li, N
    tip_condition,     \* standard, method, soil_type, N_val
    pc,                \* position in the script
    Ug, Ag,            \* circumference and tip area
    delta,             \* (delta_x, delta_y, alpha)
    K_matrix,          \* the assembled matrix
    fallback,          \* solve_structure returned from its except branch
    i,                 \* per-pile loop: piles done
    PN_list,           \* axial force of each pile done
    PHi, Mti,          \* shear force and head moment of the last pile done
    printed,           \* the pile rows printed: <<x, PNi, PHi, Mti>>
    PN_max,
    j,                 \* skin-friction loop: layers done
    Rf, qd, qd_rule, Rp, Ru,
    fs,
    verdict            \* the verdict lines printed

inputs == <<loads_inputs, stiffness_inputs, x_coords, theta, D, soil_layers,
            tip_condition>>
step12 == <<Ug, Ag, delta, K_matrix, fallback>>
step3 == <<i, PN_list, PHi, Mti, printed, PN_max>>
step4 == <<j, Rf, qd, qd_rule, Rp, Ru>>
step5 == <<fs, verdict>>
pilevars == <<inputs, pc, step12, step3, step4, step5>>

\* ------------------------------------------------------------------------
\* The other programs of the repository: their state, held still while
\* Pile_DisCal.py runs
\* ------------------------------------------------------------------------
VARIABLES
    gantt_df,          \* app.py: the rows handed to process_task_summary
    task_keyword,      \* app.py: its keyword
    task_df,           \* app.py: the matching rows it returns
    summary,           \* app.py: the summary rows it returns
    summary_pc         \* app.py: "idle", "call" or "returned"

\* pandas values: a missing time, a time in hours from the first day's
\* midnight, a missing text, a text as its sequence of words
NaT == [kind |-> "NaT"]
Timestamp(h) == [kind |-> "Timestamp", hours |-> h]
NoText == [kind |-> "NaN"]
Str(w) == [kind |-> "str", words |-> w]

summary_vars == <<gantt_df, task_keyword, task_df, summary, summary_pc>>

SummaryIdle ==
    /\ gantt_df = <<>> /\ task_keyword = Str(<<>>) /\ task_df = <<>> /\ summary = <<>>
    /\ summary_pc = "idle"

VARIABLES
    selected_path,     \* _old/test.py: value of path-dropdown
    clickData,         \* _old/test.py: clickData of gantt-chart
    show_all_clicks,   \* _old/test.py: n_clicks of show-all
    reset_clicks,      \* _old/test.py: n_clicks of reset-path
    figure,            \* _old/test.py: figure of gantt-chart
    path_before_reset  \* history: the dropdown's value when reset-path was
                       \* last pressed, until the dropdown is next changed

dash_vars == <<selected_path, clickData, show_all_clicks, reset_clicks, figure,
               path_before_reset>>

\* Python values of the callback's arguments
PyNone == [kind |-> "None"]
PyStr(s) == [kind |-> "str", s |-> s]

\* gantt_df of _old/test.py as loaded (lines 13-29): the columns the callback
\* reads
loaded_gantt_df ==
    <<[Task |-> "survey", Path |-> "A"], [Task |-> "geology", Path |-> "A"],
      [Task |-> "survey", Path |-> "B"], [Task |-> "rock", Path |-> "B"]>>

\* create_gantt_chart(df, title, height, single_task): what the figure shows
create_gantt_chart(df, title, height, single_task) ==
    [df |-> df, title |-> title, height |-> height, single_task |-> single_task]

DefaultTitle == [kind |-> "all"]
PathTitle(path) == [kind |-> "path", of |-> path]
TaskTitle(task) == [kind |-> "task", of |-> task]
FullChart == create_gantt_chart(loaded_gantt_df, DefaultTitle, 1000, FALSE)

\* app.layout: nothing chosen, nothing clicked, the chart of every row
Layout ==
    /\ selected_path = PyNone /\ clickData = PyNone
    /\ show_all_clicks = 0 /\ reset_clicks = 0
    /\ figure = FullChart
    /\ path_before_reset = PyNone

VARIABLES
    xlsx,              \* gantt_data.xlsx: the rows both chart programs read
    now,               \* datetime.now() of the run
    mpl_pc,            \* app_Progress.py: "call" or "returned"
    mpl,               \* app_Progress.py: what plot_gantt_chart computed and drew
    plotly_pc,         \* app_prog_dash.py: "call" or "returned"
    plotly             \* app_prog_dash.py: what create_gantt_figure computed and drew

chart_vars == <<xlsx, now, mpl_pc, mpl, plotly_pc, plotly>>

\* neither chart program has been started
ChartsIdle ==
    /\ xlsx = <<>> /\ now = 0
    /\ mpl_pc = "idle" /\ mpl = <<>>
    /\ plotly_pc = "idle" /\ plotly = <<>>

VARIABLES
    df_all,            \* app.py: the sheets handed to prepare_gantt_data
    prepared,          \* app.py: the frame it returns, or the exception
    prepare_pc         \* app.py: "idle", "call" or "returned"

prepare_vars == <<df_all, prepared, prepare_pc>>

PrepareIdle == df_all = <<>> /\ prepared = <<>> /\ prepare_pc = "idle"

VARIABLES
    folder,            \* app_individually.py: what app/xlsfile holds at start-up
    indiv_pc,          \* app_individually.py: "idle", "line127", "layout",
                       \* "serving" or "raised"
    indiv_names,       \* app_individually.py: the values of the seven names
                       \* of line 127, in order; <<>> while they are unbound
    indiv_figures,     \* app_individually.py: the figures of the three graphs
    indiv_raised       \* app_individually.py: the exception that ended it

indiv_vars == <<folder, indiv_pc, indiv_names, indiv_figures, indiv_raised>>

IndivIdle ==
    /\ folder = <<>> /\ indiv_pc = "idle" /\ indiv_names = <<>>
    /\ indiv_figures = <<>> /\ indiv_raised = ""

VARIABLES
    disk,              \* app.py: what app/xlsfile holds now
    app_gantt_df,      \* app.py: the global gantt_df
    app_task_dfs,      \* app.py: the globals survey_df, geology_df, qslope_df
    path_colors,       \* app.py: the global path_colors
    error_message,     \* app.py: the global error_message
    app_selected_path, \* app.py: value of path-dropdown
    app_clickData,     \* app.py: clickData of gantt-chart
    app_n_clicks,      \* app.py: n_clicks of show-all
    store_data,        \* app.py: data of store-data
    dropdown_options,  \* app.py: options of path-dropdown
    app_triggered,     \* app.py: ctx.triggered[0]['prop_id'] of the last
                       \* update_gantt
    app_figure,        \* app.py: figure of gantt-chart
    app_task_figures,  \* app.py: figures of the three task charts
    reload_pc          \* app.py: where reload_data is: "idle", at "line530",
                       \* or "returned" with its outputs not yet delivered

app_globals == <<app_gantt_df, app_task_dfs, path_colors, error_message>>
app_inputs == <<app_selected_path, app_clickData, app_n_clicks, store_data,
                dropdown_options>>
app_outputs == <<app_triggered, app_figure, app_task_figures>>
app_vars == <<disk, app_globals, app_inputs, app_outputs, reload_pc>>

\* app.py not started
AppIdle ==
    /\ disk = <<>> /\ app_gantt_df = PyNone /\ app_task_dfs = <<>>
    /\ path_colors = PyNone /\ error_message = PyNone
    /\ app_selected_path = PyNone /\ app_clickData = PyNone
    /\ app_n_clicks = 0 /\ store_data = "None" /\ dropdown_options = <<>>
    /\ app_triggered = "" /\ app_figure = <<>> /\ app_task_figures = <<>>
    /\ reload_pc = "not started"

apps == <<summary_vars, dash_vars, chart_vars, prepare_vars, indiv_vars, app_vars>>

\* what each program leaves alone
not_summary ==
    <<pilevars, dash_vars, chart_vars, prepare_vars, indiv_vars, app_vars>>
not_dash ==
    <<pilevars, summary_vars, chart_vars, prepare_vars, indiv_vars, app_vars>>
not_charts ==
    <<pilevars, summary_vars, dash_vars, prepare_vars, indiv_vars, app_vars>>
not_prepare ==
    <<pilevars, summary_vars, dash_vars, chart_vars, indiv_vars, app_vars>>
not_indiv ==
    <<pilevars, summary_vars, dash_vars, chart_vars, prepare_vars, app_vars>>
not_app ==
    <<pilevars, summary_vars, dash_vars, chart_vars, prepare_vars, indiv_vars>>

\* no other program is running
Idle ==
    SummaryIdle /\ Layout /\ ChartsIdle /\ PrepareIdle /\ IndivIdle /\ AppIdle

vars == <<inputs, pc, step12, step3, step4, step5, apps>>

ZeroMatrix == [r \in 1..3 |-> [c \in 1..3 |-> QZero]]

\* the script's names before their first assignment
Unassigned ==
    /\ Ug = QZero /\ Ag = QZero
    /\ delta = <<QZero, QZero, QZero>>
    /\ K_matrix = ZeroMatrix
    /\ fallback = FALSE
    /\ i = 0 /\ PN_list = <<>> /\ PHi = QZero /\ Mti = QZero /\ printed = <<>>
    /\ PN_max = QZero
    /\ j = 0 /\ Rf = QZero /\ qd = QZero /\ qd_rule = "" /\ Rp = QZero
    /\ Ru = QZero
    /\ fs = NaN /\ verdict = <<>>

\* Step 1 (line 134)
Step1Geometry ==
    /\ pc = "step1"
    /\ \E g \in {get_geometry(D)} :
           /\ Ug' = g[1]
           /\ Ag' = g[2]
    /\ pc' = "step2"
    /\ UNCHANGED <<inputs, delta, K_matrix, fallback, step3, step4, step5>>
    /\ UNCHANGED apps

\* Step 2 (lines 138-140): an exception leaving solve_structure ends the script
Step2Solve ==
    /\ pc = "step2"
    /\ \E r \in {solve_structure(stiffness_inputs, x_coords, loads_inputs, theta)} :
           IF r.raised
           THEN /\ pc' = "raised"
                /\ UNCHANGED <<delta, K_matrix, fallback>>
           ELSE /\ delta' = r.sol
                /\ K_matrix' = r.K
                /\ fallback' = r.fallback
                /\ pc' = "step3"
    /\ UNCHANGED <<inputs, Ug, Ag, step3, step4, step5>>
    /\ UNCHANGED apps

\* the two coupling constants exchanged
PileForces_SwappedCoupling(x) ==
    LET lift == QAdd(delta[2], QMul(delta[3], x))
        d_xi == QSub(QMul(delta[1], NpCos(theta)), QMul(lift, NpSin(theta)))
        d_yi == QAdd(QMul(delta[1], NpSin(theta)), QMul(lift, NpCos(theta)))
    IN  [PNi |-> QMul(Q(stiffness_inputs[1]), d_yi),
         PHi |-> QSub(QMul(Q(stiffness_inputs[2]), d_xi),
                      QMul(Q(stiffness_inputs[4]), delta[3])),
         Mti |-> QAdd(QMul(QNeg(Q(stiffness_inputs[3])), d_xi),
                      QMul(Q(stiffness_inputs[5]), delta[3]))]

\* the pile's offset taken as its rotation arm without the rotation
PileForces_OffsetAlone(x) ==
    LET lift == QAdd(delta[2], x)
        d_xi == QSub(QMul(delta[1], NpCos(theta)), QMul(lift, NpSin(theta)))
        d_yi == QAdd(QMul(delta[1], NpSin(theta)), QMul(lift, NpCos(theta)))
    IN  [PNi |-> QMul(Q(stiffness_inputs[1]), d_yi),
         PHi |-> QSub(QMul(Q(stiffness_inputs[2]), d_xi),
                      QMul(Q(stiffness_inputs[3]), delta[3])),
         Mti |-> QAdd(QMul(QNeg(Q(stiffness_inputs[4])), d_xi),
                      QMul(Q(stiffness_inputs[5]), delta[3]))]

\* the forces of the pile at offset x (lines 159-165)
PileForces(x) ==
    LET sin_t == NpSin(theta)
        cos_t == NpCos(theta)
        kv == Q(stiffness_inputs[1])
        k1 == Q(stiffness_inputs[2])
        k2 == Q(stiffness_inputs[3])
        k3 == Q(stiffness_inputs[4])
        k4 == Q(stiffness_inputs[5])
        delta_x == delta[1]
        delta_y == delta[2]
        alpha == delta[3]
        lift == QAdd(delta_y, QMul(alpha, x))
        d_xi == QSub(QMul(delta_x, cos_t), QMul(lift, sin_t))
        d_yi == QAdd(QMul(delta_x, sin_t), QMul(lift, cos_t))
    IN  [PNi |-> QMul(kv, d_yi),
         PHi |-> QSub(QMul(k1, d_xi), QMul(k2, alpha)),
         Mti |-> QAdd(QMul(QNeg(k3), d_xi), QMul(k4, alpha))]

printed_indices == {0, 7}

\* Step 3, one pass of the loop body (lines 157-171)
Step3Pile ==
    /\ pc = "step3"
    /\ i < Len(x_coords)
    /\ \E f \in {PileForces(x_coords[i + 1])} :
           /\ PN_list' = Append(PN_list, f.PNi)
           /\ PHi' = f.PHi
           /\ Mti' = f.Mti
           /\ printed' = IF i \in printed_indices
                         THEN Append(printed, <<x_coords[i + 1], f.PNi, f.PHi, f.Mti>>)
                         ELSE printed
    /\ i' = i + 1
    /\ UNCHANGED <<inputs, pc, step12, PN_max, step4, step5>>
    /\ UNCHANGED apps

\* Step 3, after the loop (line 173): max() of an empty list raises
Step3Max ==
    /\ pc = "step3"
    /\ i = Len(x_coords)
    /\ IF PN_list = <<>>
       THEN pc' = "raised" /\ UNCHANGED PN_max
       ELSE pc' = "step4" /\ PN_max' = PyMax(PN_list)
    /\ UNCHANGED <<inputs, step12, i, PN_list, PHi, Mti, printed, step4, step5>>
    /\ UNCHANGED apps

\* every type capped at the sand ceiling
Tau_SandLimit(layer) ==
    IF 5 * layer.N < 200 /\ layer.type = "sand" THEN 5 * layer.N
    ELSE IF 10 * layer.N < 200 /\ layer.type # "sand" THEN 10 * layer.N
    ELSE 200

\* the unit skin friction of a layer (lines 184-186)
Tau(layer) ==
    LET raw_tau == IF layer.type = "sand" THEN 5 * layer.N ELSE 10 * layer.N
        limit == IF layer.type = "sand" THEN 200 ELSE 150
    IN  IF raw_tau < limit THEN raw_tau ELSE limit

\* the loop taking its layers off the list
Step4Layer_Consumes ==
    /\ pc = "step4"
    /\ j < Len(soil_layers)
    /\ Rf' = QAdd(Rf, QMul(QMul(Ug, soil_layers[1].Li), Q(Tau(soil_layers[1]))))
    /\ soil_layers' = Tail(soil_layers)
    /\ UNCHANGED <<loads_inputs, stiffness_inputs, x_coords, theta, D,
                   tip_condition, pc, step12, step3, j, qd, qd_rule, Rp, Ru, step5>>
    /\ UNCHANGED apps

\* Step 4.1, one pass of the loop body (lines 183-189)
Step4Layer ==
    /\ pc = "step4"
    /\ j < Len(soil_layers)
    /\ LET layer == soil_layers[j + 1]
           f_i == QMul(QMul(Ug, layer.Li), Q(Tau(layer)))
       IN  Rf' = QAdd(Rf, f_i)
    /\ j' = j + 1
    /\ UNCHANGED <<inputs, pc, step12, step3, qd, qd_rule, Rp, Ru, step5>>
    /\ UNCHANGED apps

\* Step 4.2 (lines 192-195)
Step4Tip ==
    /\ pc = "step4"
    /\ j = Len(soil_layers)
    /\ \E r \in {get_qd_value(tip_condition.standard, tip_condition.method,
                                tip_condition.soil_type, tip_condition.N_val)} :
           /\ qd' = r[1]
           /\ qd_rule' = r[2]
           /\ Rp' = QMul(r[1], Ag)
           /\ Ru' = QAdd(Rf, Rp')
    /\ pc' = "step5"
    /\ UNCHANGED <<inputs, step12, step3, j, Rf, step5>>
    /\ UNCHANGED apps

\* Step 5 (line 205): PN_max is a numpy.float64, so the division is numpy's
Step5Fs ==
    /\ pc = "step5"
    /\ \E f \in {NpTrueDivide(Ru, PN_max)} :
           IF f.k = "ZeroDivisionError"
           THEN pc' = "raised" /\ UNCHANGED fs
           ELSE pc' = "judge" /\ fs' = f
    /\ UNCHANGED <<inputs, step12, step3, step4, verdict>>
    /\ UNCHANGED apps

\* Step 5 (lines 210-215)
Step5Judge ==
    /\ pc = "judge"
    /\ verdict' = Append(verdict, Verdict(fs))
    /\ pc' = "done"
    /\ UNCHANGED <<inputs, step12, step3, step4, fs>>
    /\ UNCHANGED apps

Next ==
    \/ Step1Geometry
    \/ Step2Solve
    \/ Step3Pile
    \/ Step3Max
    \/ Step4Layer
    \/ Step4Tip
    \/ Step5Fs
    \/ Step5Judge

\* ------------------------------------------------------------------------
\* Inputs
\* ------------------------------------------------------------------------
MaxPiles == 4

\* offsets in quarter metres: the shipped rows and the centre line
Offsets == {-5, 0, 5}

\* the layouts of n piles, front row first
RECURSIVE LayoutsOf(_)
LayoutsOf(n) ==
    IF n = 0 THEN {<<>>}
    ELSE {Append(s, e) : s \in LayoutsOf(n - 1), e \in Offsets}

Ascending(s) == \A p \in 1..(Len(s) - 1) : s[p] <= s[p + 1]

Layouts ==
    {[p \in 1..Len(s) |-> Frac(s[p], 4)] :
        s \in {t \in UNION {LayoutsOf(n) : n \in 1..MaxPiles} : Ascending(t)}}

Stiffnesses == {<<2, 1, 0, 0, 1>>, <<2, 1, 1, 1, 1>>, <<2, 1, 1, 0, 2>>,
                <<0, 1, 1, 1, 2>>}

\* [H0, V0, M0]: no load, H only, V only, H and V, all three
Loads == {<<0, 0, 0>>, <<1, 0, 0>>, <<0, 3, 0>>, <<1, 3, 0>>, <<1, 3, 1>>}

Thetas == {"0", "atan(3/4)"}

Standards == {"Japan_2017", "Taiwan_Building", "AASHTO"}
Methods == {"Bored", "Driven"}
SoilTypes == {"sand", "clay", "gravel", "rock"}
MaxN == 52
NVals == -1..MaxN

MaxRuCents == 400

\* capacity inputs of the runs that vary something else
PlainD == Frac(1, 2)
PlainLayers == <<[type |-> "sand", Li |-> Q(2), N |-> 10],
                 [type |-> "clay", Li |-> Frac(3, 2), N |-> 20]>>

\* layers on both sides of the two ceilings (5N = 200 at N = 40 for sand,
\* 10N = 150 at N = 15 otherwise)
MaxLayers == 3
LayerChoices ==
    {[type |-> "sand", Li |-> Q(1), N |-> 39],
     [type |-> "sand", Li |-> Q(2), N |-> 40],
     [type |-> "sand", Li |-> Frac(3, 2), N |-> 41],
     [type |-> "clay", Li |-> Q(2), N |-> 14],
     [type |-> "clay", Li |-> Q(1), N |-> 16],
     [type |-> "gravel", Li |-> Frac(3, 2), N |-> 20]}

RECURSIVE LayersOf(_)
LayersOf(n) ==
    IF n = 0 THEN {<<>>}
    ELSE {Append(s, e) : s \in LayersOf(n - 1), e \in LayerChoices}

InitShipped ==
    /\ loads_inputs = ShippedLoads
    /\ stiffness_inputs = ShippedStiffness
    /\ x_coords = ShippedPiles
    /\ theta = ShippedTheta
    /\ D = ShippedD
    /\ soil_layers = ShippedLayers
    /\ tip_condition = ShippedTip
    /\ pc = "step1"
    /\ Unassigned
    /\ Idle

\* the solver's inputs vary
InitSolver ==
    /\ loads_inputs \in Loads
    /\ stiffness_inputs \in Stiffnesses
    /\ x_coords \in Layouts
    /\ theta \in Thetas
    /\ D = PlainD
    /\ soil_layers = PlainLayers
    /\ tip_condition = ShippedTip
    /\ pc = "step1"
    /\ Unassigned
    /\ Idle

Init == InitShipped \/ InitSolver

Spec == Init /\ [][Next]_vars

\* the tip condition varies, over a two-pile group
InitTip ==
    /\ loads_inputs = <<1, 3, 1>>
    /\ stiffness_inputs = <<2, 1, 1, 1, 1>>
    /\ x_coords = <<Frac(-5, 4), Frac(5, 4)>>
    /\ theta = "0"
    /\ D = PlainD
    /\ soil_layers = PlainLayers
    /\ tip_condition \in [standard : Standards, method : Methods,
                          soil_type : SoilTypes, N_val : NVals]
    /\ pc = "step1"
    /\ Unassigned
    /\ Idle

SpecTip == InitTip /\ [][Next]_vars

\* the soil layers vary, over a two-pile group
InitSkin ==
    /\ loads_inputs = <<1, 3, 1>>
    /\ stiffness_inputs = <<2, 1, 1, 1, 1>>
    /\ x_coords = <<Frac(-5, 4), Frac(5, 4)>>
    /\ theta = "0"
    /\ D = PlainD
    /\ soil_layers \in UNION {LayersOf(n) : n \in 0..MaxLayers}
    /\ tip_condition = ShippedTip
    /\ pc = "step1"
    /\ Unassigned
    /\ Idle

SpecSkin == InitSkin /\ [][Next]_vars

\* the script at line 205, for any capacity Ru (in hundredths) and demand PN_max
InitJudge ==
    /\ loads_inputs = ShippedLoads
    /\ stiffness_inputs = ShippedStiffness
    /\ x_coords = ShippedPiles
    /\ theta = ShippedTheta
    /\ D = ShippedD
    /\ soil_layers = ShippedLayers
    /\ tip_condition = ShippedTip
    /\ Ug = QZero /\ Ag = QZero
    /\ delta = <<QZero, QZero, QZero>>
    /\ K_matrix = ZeroMatrix
    /\ fallback = FALSE
    /\ i = Len(x_coords) /\ PN_list = <<>> /\ PHi = QZero /\ Mti = QZero
    /\ printed = <<>>
    /\ PN_max \in {Q(-1), Q(0), Q(1)}
    /\ j = Len(soil_layers) /\ Rf = QZero /\ qd = QZero /\ qd_rule = ""
    /\ Rp = QZero
    /\ Ru \in {Frac(c, 100) : c \in 0..MaxRuCents}
    /\ fs = NaN /\ verdict = <<>>
    /\ pc = "step5"
    /\ Idle

NextJudge == Step5Fs \/ Step5Judge

SpecJudge == InitJudge /\ [][NextJudge]_vars

\* ------------------------------------------------------------------------
\* app.py: process_task_summary
\* ------------------------------------------------------------------------
\* Pile_DisCal.py as shipped and not run
ScriptNotRun ==
    /\ loads_inputs = ShippedLoads
    /\ stiffness_inputs = ShippedStiffness
    /\ x_coords = ShippedPiles
    /\ theta = ShippedTheta
    /\ D = ShippedD
    /\ soil_layers = ShippedLayers
    /\ tip_condition = ShippedTip
    /\ pc = "step1"
    /\ Unassigned

\* str.contains looks for the keyword as a run of the text's words, and
\* answers na for a missing text
StrContains(text, pat, na) ==
    IF text = NoText THEN na
    ELSE \E k \in 0..(Len(text.words) - Len(pat.words)) :
             SubSeq(text.words, k + 1, k + Len(pat.words)) = pat.words

\* gantt_df[gantt_df['Task'].str.contains(task_keyword, na=False)]
RECURSIVE BoolIndex(_, _)
BoolIndex(df, keyword) ==
    IF df = <<>> THEN <<>>
    ELSE (IF StrContains(Head(df).Task, keyword, FALSE) THEN <<Head(df)>>
          ELSE <<>>) \o BoolIndex(Tail(df), keyword)

\* the row orders sort_values("Start") may give: times ascending, equal times
\* in any order (the default sort is not stable), then the rows
\* with no time (na_position='last') in the order they had
SortValues(df) ==
    {ord \in [1..Len(df) -> 1..Len(df)] :
        /\ \A a, b \in 1..Len(df) : a # b => ord[a] # ord[b]
        /\ \A a, b \in 1..Len(df) : a < b =>
              IF df[ord[a]].Start = NaT
              THEN df[ord[b]].Start = NaT /\ ord[a] < ord[b]
              ELSE \/ df[ord[b]].Start = NaT
                   \/ df[ord[a]].Start.hours <= df[ord[b]].Start.hours}

Take(df, ord) == [k \in 1..Len(df) |-> df[ord[k]]]

\* groupby("Path").tail(1): the last row of every path, in the frame's order
RECURSIVE GroupbyTail1(_)
GroupbyTail1(df) ==
    IF df = <<>> THEN <<>>
    ELSE (IF \E k \in 2..Len(df) : df[k].Path = Head(df).Path THEN <<>>
          ELSE <<Head(df)>>) \o GroupbyTail1(Tail(df))

\* %Y-%m-%d of the days the rows use
DayText ==
    <<"2025-02-14", "2025-02-15", "2025-02-16", "2025-02-17", "2025-02-18",
      "2025-02-19", "2025-02-20", "2025-02-21">>

\* .dt.strftime("%Y-%m-%d"): the day without the time of day; a missing time
\* gives a missing text
Strftime(t) ==
    IF t = NaT THEN NoText ELSE Str(<<DayText[(t.hours \div 24) + 1]>>)

\* the columns Path, Start, Finish renamed and formatted (lines 19-24); the
\* fields stand for the columns named in line 20
SummaryRow(r) ==
    [trail |-> r.Path,
     survey_start |-> Strftime(r.Start),
     survey_end |-> Strftime(r.Finish)]

SummaryOf(df) == [k \in 1..Len(df) |-> SummaryRow(df[k])]

\* process_task_summary(gantt_df, task_keyword), whole
ProcessTaskSummary ==
    /\ summary_pc = "call"
    /\ task_df' = BoolIndex(gantt_df, task_keyword)
    /\ IF task_df' # <<>>
       THEN \E ord \in SortValues(task_df') :
                summary' = SummaryOf(GroupbyTail1(Take(task_df', ord)))
       ELSE summary' = <<>>
    /\ summary_pc' = "returned"
    /\ UNCHANGED <<gantt_df, task_keyword>>
    /\ UNCHANGED not_summary

\* ---- the frames prepare_gantt_data builds ----
MaxRows == 3
TaskNames ==
    {Str(<<"survey">>), Str(<<"survey", "report">>), Str(<<"geology">>), NoText}
Keywords == {Str(<<"survey">>), Str(<<"report">>)}
Paths == {"A", "B"}
StartTimes == {Timestamp(12), Timestamp(24)}

\* a dated row (lines 61-71) or a placeholder row (lines 72-79)
GanttRows ==
    {[Task |-> t, Path |-> p, Start |-> s, Finish |-> Timestamp(s.hours + 24)] :
        t \in TaskNames, p \in Paths, s \in StartTimes}
    \cup {[Task |-> t, Path |-> p, Start |-> NaT, Finish |-> NaT] :
        t \in TaskNames, p \in Paths}

RECURSIVE FramesOf(_)
FramesOf(n) ==
    IF n = 0 THEN {<<>>}
    ELSE {<<r>> \o f : r \in GanttRows, f \in FramesOf(n - 1)}

InitSummary ==
    /\ ScriptNotRun
    /\ gantt_df \in UNION {FramesOf(n) : n \in 0..MaxRows}
    /\ task_keyword \in Keywords
    /\ task_df = <<>> /\ summary = <<>>
    /\ summary_pc = "call"
    /\ Layout /\ ChartsIdle /\ PrepareIdle /\ IndivIdle /\ AppIdle

NextSummary == ProcessTaskSummary

SpecSummary == InitSummary /\ [][NextSummary]_vars

\* ------------------------------------------------------------------------
\* _old/test.py: the layout and its callback update_gantt
\* ------------------------------------------------------------------------
\* Python truth of a dropdown value
Truthy(v) == v # PyNone /\ v # PyStr("")

\* gantt_df[gantt_df[column] == value]
RECURSIVE WhereEq(_, _, _)
WhereEq(df, column, value) ==
    IF df = <<>> THEN <<>>
    ELSE (IF Head(df)[column] = value THEN <<Head(df)>> ELSE <<>>)
         \o WhereEq(Tail(df), column, value)

\* update_gantt, given the property that triggered it
update_gantt(triggered, path, click) ==
    IF triggered = "show-all.n_clicks" THEN FullChart
    ELSE IF triggered = "reset-path.n_clicks" THEN FullChart
    ELSE IF Truthy(path)
    THEN create_gantt_chart(WhereEq(loaded_gantt_df, "Path", path.s),
                            PathTitle(path.s), 1000, FALSE)
    ELSE IF click # PyNone
    THEN create_gantt_chart(WhereEq(loaded_gantt_df, "Task", click.points[1].y),
                            TaskTitle(click.points[1].y), 500, TRUE)
    ELSE FullChart

MaxClicks == 2
DropdownValues ==
    {PyNone} \cup {PyStr(loaded_gantt_df[k].Path) : k \in DOMAIN loaded_gantt_df}
ShownTasks == {figure.df[k].Task : k \in DOMAIN figure.df}
ClickOn(task) == [kind |-> "dict", points |-> <<[y |-> task]>>]

\* the user picks or clears a path in the dropdown
SelectPath ==
    \E v \in DropdownValues :
        /\ v # selected_path
        /\ selected_path' = v
        /\ figure' = update_gantt("path-dropdown.value", v, clickData)
        /\ path_before_reset' = PyNone
        /\ UNCHANGED <<clickData, show_all_clicks, reset_clicks>>
        /\ UNCHANGED not_dash

\* the user clicks a bar of the chart
ClickTask ==
    \E task \in ShownTasks :
        /\ clickData' = ClickOn(task)
        /\ figure' = update_gantt("gantt-chart.clickData", selected_path,
                                  clickData')
        /\ UNCHANGED <<selected_path, show_all_clicks, reset_clicks,
                       path_before_reset>>
        /\ UNCHANGED not_dash

\* the user presses show-all
PressShowAll ==
    /\ show_all_clicks < MaxClicks
    /\ show_all_clicks' = show_all_clicks + 1
    /\ figure' = update_gantt("show-all.n_clicks", selected_path, clickData)
    /\ UNCHANGED <<selected_path, clickData, reset_clicks, path_before_reset>>
    /\ UNCHANGED not_dash

\* the user presses reset-path: the callback's only output is the figure
PressReset ==
    /\ reset_clicks < MaxClicks
    /\ reset_clicks' = reset_clicks + 1
    /\ figure' = update_gantt("reset-path.n_clicks", selected_path, clickData)
    /\ path_before_reset' = selected_path
    /\ UNCHANGED <<selected_path, clickData, show_all_clicks>>
    /\ UNCHANGED not_dash

InitDash ==
    /\ ScriptNotRun /\ SummaryIdle /\ Layout /\ ChartsIdle /\ PrepareIdle
    /\ IndivIdle /\ AppIdle

NextDash == SelectPath \/ ClickTask \/ PressShowAll \/ PressReset

SpecDash == InitDash /\ [][NextDash]_vars

\* ------------------------------------------------------------------------
\* app_Progress.py: plot_gantt_chart, and app_prog_dash.py:
\* create_gantt_figure.  A row of the workbook has the fields start_date,
\* end_date, completion for the columns the two functions compute with.
\* ------------------------------------------------------------------------
\* a day of the calendar, at midnight
Date(y, m, d) == [kind |-> "Timestamp", y |-> y, m |-> m, d |-> d]

\* the day's number in the proleptic Gregorian calendar, counted from a fixed
\* day: what date differences and comparisons are computed with
Ordinal(t) ==
    ((IF t.m <= 2 THEN t.y - 1 ELSE t.y) \div 400) * 146097
    + ((IF t.m <= 2 THEN t.y - 1 ELSE t.y) % 400) * 365
    + ((IF t.m <= 2 THEN t.y - 1 ELSE t.y) % 400) \div 4
    - ((IF t.m <= 2 THEN t.y - 1 ELSE t.y) % 400) \div 100
    + (153 * (IF t.m > 2 THEN t.m - 3 ELSE t.m + 9) + 2) \div 5
    + t.d - 1

\* an instant in half days: midnight of a day, or a later time of that day
Midnight(t) == 2 * Ordinal(t)
HalfDays(days) == 2 * days

\* pd.to_numeric(cell, errors='coerce') then fillna(0)
ToNumericFillna(cell) == IF cell.k = "num" THEN cell.v ELSE QZero

\* Series.clip(lower, upper)
Clip(a, lower, upper) ==
    IF QLt(a, lower) THEN lower ELSE IF QLt(upper, a) THEN upper ELSE a

\* Series.max()
RECURSIVE ColMax(_)
ColMax(col) ==
    IF Len(col) = 1 THEN col[1]
    ELSE IF QLt(ColMax(Tail(col)), Head(col)) THEN Head(col)
    ELSE ColMax(Tail(col))

\* if column.max() > 1: column = column / 100
PercentToFraction(col) ==
    IF QLt(Q(1), ColMax(col))
    THEN [k \in DOMAIN col |-> QDiv(col[k], Q(100))]
    ELSE col

\* app_Progress.py lines 52-57
ProgressCompletion(df) ==
    PercentToFraction([k \in DOMAIN df |->
        Clip(ToNumericFillna(df[k].completion), QZero, Q(1))])

\* app_prog_dash.py lines 30-32
DashCompletion(df) ==
    PercentToFraction([k \in DOMAIN df |-> ToNumericFillna(df[k].completion)])

\* app_Progress.py lines 62-64
ProgressDuration(row) ==
    IF /\ row.start_date # NaT /\ row.end_date # NaT
       /\ Ordinal(row.end_date) >= Ordinal(row.start_date)
    THEN Ordinal(row.end_date) - Ordinal(row.start_date)
    ELSE 0

\* app_prog_dash.py line 28: (end - start).dt.days, missing when a date is
NoDays == [kind |-> "NaN"]
Days(n) == [kind |-> "days", days |-> n]
DashDuration(row) ==
    IF row.start_date = NaT \/ row.end_date = NaT THEN NoDays
    ELSE Days(Ordinal(row.end_date) - Ordinal(row.start_date))

\* int(x) of a float that is not negative
PyInt(a) == MagToNat(MagDiv(a.n.mag, a.d.mag))

\* the earliest of the dates that are not missing, NaT when all are
RECURSIVE DateMin(_)
DateMin(dates) ==
    IF dates = <<>> THEN NaT
    ELSE IF Head(dates) = NaT THEN DateMin(Tail(dates))
    ELSE IF DateMin(Tail(dates)) = NaT THEN Head(dates)
    ELSE IF Ordinal(DateMin(Tail(dates))) < Ordinal(Head(dates))
    THEN DateMin(Tail(dates))
    ELSE Head(dates)

RECURSIVE DateMax(_)
DateMax(dates) ==
    IF dates = <<>> THEN NaT
    ELSE IF Head(dates) = NaT THEN DateMax(Tail(dates))
    ELSE IF DateMax(Tail(dates)) = NaT THEN Head(dates)
    ELSE IF Ordinal(DateMax(Tail(dates))) > Ordinal(Head(dates))
    THEN DateMax(Tail(dates))
    ELSE Head(dates)

StartDates(df) == [k \in DOMAIN df |-> df[k].start_date]
EndDates(df) == [k \in DOMAIN df |-> df[k].end_date]

reference_date == Date(2024, 10, 1)

\* quarters from the reference quarter to the quarter of month m of year y
QuartersDiff(y, m) ==
    (y - reference_date.y) * 4 + ((m - 1) \div 3) - ((reference_date.m - 1) \div 3)

\* first month of the quarter of month m
QuarterMonth(m) == ((m - 1) \div 3) * 3 + 1

\* the quarter after the one that starts in month m of year y
NextQuarter(y, m) == IF m + 3 > 12 THEN Date(y + 1, m + 3 - 12, 1) ELSE Date(y, m + 3, 1)

\* ---- app_Progress.py ----
\* lines 86-89: min_date_overall
ProgressMin(df) ==
    IF DateMin(StartDates(df)) = NaT THEN reference_date ELSE DateMin(StartDates(df))

\* lines 90-94: max_date_overall, as an instant
ProgressMaxRaw(df, clock) ==
    IF DateMax(EndDates(df)) = NaT THEN clock + HalfDays(90)
    ELSE Midnight(DateMax(EndDates(df)))

ProgressMax(df, clock) ==
    IF (ProgressMaxRaw(df, clock) - Midnight(ProgressMin(df))) \div 2 < 30
    THEN Midnight(ProgressMin(df)) + HalfDays(90)
    ELSE ProgressMaxRaw(df, clock)

\* lines 113-131: one axvspan for each quarter, coloured by the parity of its
\* distance from the reference quarter
RECURSIVE ProgressSpans(_, _)
ProgressSpans(current_quarter_start, max_date_overall) ==
    IF Midnight(current_quarter_start) <= max_date_overall + HalfDays(31)
    THEN <<[x0 |-> current_quarter_start,
            color_idx_bg |->
                IF QuartersDiff(current_quarter_start.y,
                                current_quarter_start.m) % 2 = 0
                THEN 0 ELSE 1]>>
         \o ProgressSpans(NextQuarter(current_quarter_start.y,
                                      current_quarter_start.m),
                          max_date_overall)
    ELSE <<>>

\* lines 135-198: the bars of one row; the completed bar is shortened by two
\* days at each end and carries the percentage
ProgressCompleted(duration, fraction) ==
    IF QLt(Q(4), QMul(Q(duration), fraction))
    THEN [drawn |-> TRUE,
          width |-> QSub(QMul(Q(duration), fraction), Q(4)),
          text |-> PyInt(QMul(fraction, Q(100)))]
    ELSE [drawn |-> FALSE]

ProgressBar(row, duration, fraction) ==
    IF row.start_date # NaT /\ row.end_date # NaT /\ duration >= 0
    THEN [drawn |-> TRUE, width |-> duration,
          completed |-> ProgressCompleted(duration, fraction)]
    ELSE [drawn |-> FALSE]

\* plot_gantt_chart(file_name), whole
PlotGanttChart ==
    /\ mpl_pc = "call"
    /\ mpl' = [completion |-> ProgressCompletion(xlsx),
               duration |-> [k \in DOMAIN xlsx |-> ProgressDuration(xlsx[k])],
               spans |-> ProgressSpans(
                   Date(ProgressMin(xlsx).y, QuarterMonth(ProgressMin(xlsx).m), 1),
                   ProgressMax(xlsx, now)),
               bars |-> [k \in DOMAIN xlsx |->
                   ProgressBar(xlsx[k], ProgressDuration(xlsx[k]),
                               ProgressCompletion(xlsx)[k])],
               yticks |-> [k \in DOMAIN xlsx |-> k]]
    /\ mpl_pc' = "returned"
    /\ UNCHANGED <<xlsx, now, plotly_pc, plotly>>
    /\ UNCHANGED not_charts

\* ---- app_prog_dash.py ----
\* lines 52-56: min_date, as an instant; the default keeps now's time of day
DashMinDate(df) ==
    IF DateMin(StartDates(df)) = NaT THEN reference_date ELSE DateMin(StartDates(df))

DashMin(df, clock) ==
    IF DateMin(StartDates(df)) = NaT
    THEN Midnight(reference_date) + (clock % 2)
    ELSE Midnight(DateMin(StartDates(df)))

\* lines 54-57: max_date, as an instant
DashMax(df, clock) ==
    IF DateMax(EndDates(df)) = NaT
    THEN DashMin(df, clock) + HalfDays(90)
    ELSE IF Midnight(DateMax(EndDates(df))) < DashMin(df, clock)
    THEN DashMin(df, clock) + HalfDays(90)
    ELSE Midnight(DateMax(EndDates(df)))

\* lines 66-72: the colour index of the first quarter drawn
DashFirstColor(total_quarters_since_ref) ==
    IF total_quarters_since_ref < 0
    THEN 1 - ((-total_quarters_since_ref) % 2)
    ELSE total_quarters_since_ref % 2

\* lines 75-96: one rect for each quarter, the index counted up from the first
RECURSIVE DashShapes(_, _, _)
DashShapes(current_date, color_idx_bg, max_date) ==
    IF Midnight(current_date) <= max_date + HalfDays(31)
    THEN <<[x0 |-> current_date, color_idx_bg |-> color_idx_bg % 2]>>
         \o DashShapes(NextQuarter(current_date.y, current_date.m),
                       color_idx_bg + 1, max_date)
    ELSE <<>>

\* lines 122-156: the completed bar and its annotation
DashCompleted(duration, fraction) ==
    IF QLt(QZero, QMul(Q(duration), fraction))
    THEN [drawn |-> TRUE,
          width |-> QMul(Q(duration), fraction),
          text |-> PyInt(QMul(fraction, Q(100)))]
    ELSE [drawn |-> FALSE]

\* lines 102-120: a missing duration compares false with 0
DashBar(row, duration, fraction) ==
    IF /\ row.start_date # NaT /\ row.end_date # NaT
       /\ duration # NoDays /\ duration.days >= 0
    THEN [drawn |-> TRUE, width |-> duration.days,
          completed |-> DashCompleted(duration.days, fraction)]
    ELSE [drawn |-> FALSE]

\* create_gantt_figure(file_name), whole
CreateGanttFigure ==
    /\ plotly_pc = "call"
    /\ plotly' = [completion |-> DashCompletion(xlsx),
                  duration |-> [k \in DOMAIN xlsx |-> DashDuration(xlsx[k])],
                  shapes |-> DashShapes(
                      Date(DashMinDate(xlsx).y, QuarterMonth(DashMinDate(xlsx).m), 1),
                      DashFirstColor(QuartersDiff(DashMinDate(xlsx).y,
                          QuarterMonth(DashMinDate(xlsx).m))),
                      DashMax(xlsx, now)),
                  bars |-> [k \in DOMAIN xlsx |->
                      DashBar(xlsx[k], DashDuration(xlsx[k]),
                              DashCompletion(xlsx)[k])],
                  categoryarray |-> [k \in DOMAIN xlsx |-> Len(xlsx) + 1 - k]]
    /\ plotly_pc' = "returned"
    /\ UNCHANGED <<xlsx, now, mpl_pc, mpl>>
    /\ UNCHANGED not_charts

\* ---- the workbooks ----
MaxTasks == 2
StartCells == {NaT, Date(2024, 5, 10), Date(2024, 8, 5), Date(2024, 11, 20),
               Date(2025, 2, 1)}
EndCells == {NaT, Date(2024, 11, 10), Date(2025, 3, 15)}
\* text, a fraction, percent numbers, a number above 100, a negative number
CompletionCells == {NaN, Num(Frac(1, 2)), Num(Q(85)), Num(Q(150)), Num(Q(-5))}
SheetRows ==
    {[start_date |-> s, end_date |-> e, completion |-> c] :
        s \in StartCells, e \in EndCells, c \in CompletionCells}

RECURSIVE SheetsOf(_)
SheetsOf(n) ==
    IF n = 0 THEN {<<>>}
    ELSE {<<r>> \o f : r \in SheetRows, f \in SheetsOf(n - 1)}

\* noon of 2025-01-15
Clock == Midnight(Date(2025, 1, 15)) + 1

InitCharts ==
    /\ ScriptNotRun /\ SummaryIdle /\ Layout /\ PrepareIdle /\ IndivIdle
    /\ AppIdle
    /\ xlsx \in UNION {SheetsOf(n) : n \in 1..MaxTasks}
    /\ now = Clock
    /\ mpl_pc = "call" /\ mpl = <<>>
    /\ plotly_pc = "call" /\ plotly = <<>>

NextCharts == PlotGanttChart \/ CreateGanttFigure

SpecCharts == InitCharts /\ [][NextCharts]_vars

\* ------------------------------------------------------------------------
\* app.py: prepare_gantt_data.  df_all is the sequence of its sheets in dict
\* order, a sheet [name, rows]; a row has the fields item, count and periods
\* for its work item, its count cell and its pairs of start-i and finish-i
\* cells (a sheet has as many pairs of columns as its rows have periods).
\* ------------------------------------------------------------------------
\* a blank cell, and a number cell
Blank == [kind |-> "NaN"]
Number(n) == [kind |-> "number", v |-> n]

\* line 62: int(row[count]) if not pd.isna(row[count]) else 0
num_times(row) == IF row.count = Blank THEN 0 ELSE row.count.v

\* how a call ends: with the frame it returns, or with an exception
Frame(rows) == [raised |-> "", rows |-> rows]
KeyError == [raised |-> "KeyError", rows |-> <<>>]

\* line 68: row[start_col] of a column the sheet does not have
MissingColumn(row) == num_times(row) > Len(row.periods)

\* a period appended when its start cell alone is present
PeriodRow_StartOnly(row, sheet_name, p) ==
    IF row.periods[p].start # NaT
    THEN <<[Task |-> row.item, Path |-> sheet_name,
            Start |-> row.periods[p].start,
            Finish |-> row.periods[p].finish]>>
    ELSE <<>>

\* lines 68-75: period p, appended when both its cells are present
PeriodRow(row, sheet_name, p) ==
    IF row.periods[p].start # NaT /\ row.periods[p].finish # NaT
    THEN <<[Task |-> row.item, Path |-> sheet_name,
            Start |-> row.periods[p].start,
            Finish |-> row.periods[p].finish]>>
    ELSE <<>>

\* lines 65-75: range(1, num_times + 1), from period p on
RECURSIVE DatedRows(_, _, _)
DatedRows(row, sheet_name, p) ==
    IF p > num_times(row) THEN <<>>
    ELSE PeriodRow(row, sheet_name, p) \o DatedRows(row, sheet_name, p + 1)

\* lines 76-83
PlaceholderRow(row, sheet_name) ==
    [Task |-> row.item, Path |-> sheet_name, Start |-> NaT, Finish |-> NaT]

\* lines 61-83: the rows appended for one row of a sheet
RECURSIVE SheetRowsFrom(_, _)
SheetRowsFrom(rows, sheet_name) ==
    IF rows = <<>> THEN <<>>
    ELSE (IF num_times(Head(rows)) > 0 THEN DatedRows(Head(rows), sheet_name, 1)
          ELSE <<PlaceholderRow(Head(rows), sheet_name)>>)
         \o SheetRowsFrom(Tail(rows), sheet_name)

RECURSIVE GanttData(_)
GanttData(sheets) ==
    IF sheets = <<>> THEN <<>>
    ELSE SheetRowsFrom(Head(sheets).rows, Head(sheets).name)
         \o GanttData(Tail(sheets))

\* prepare_gantt_data(df_all): the frame, or the KeyError of the first row
\* whose count is above the sheet's pairs of columns
prepare_gantt_data(sheets) ==
    IF \E s \in DOMAIN sheets : \E r \in DOMAIN sheets[s].rows :
           MissingColumn(sheets[s].rows[r])
    THEN KeyError
    ELSE Frame(GanttData(sheets))

PrepareGanttData ==
    /\ prepare_pc = "call"
    /\ prepared' = prepare_gantt_data(df_all)
    /\ prepare_pc' = "returned"
    /\ UNCHANGED df_all
    /\ UNCHANGED not_prepare

\* ---- the workbooks ----
MaxSheets == 2
SheetNames == <<"A", "B", "C">>

\* period p of a row: both cells, one of them, or neither
PeriodCells(p) ==
    {[start |-> s, finish |-> f] :
        s \in {NaT, Timestamp(48 * p)}, f \in {NaT, Timestamp(48 * p + 24)}}
FullPeriod(p) == [start |-> Timestamp(48 * p), finish |-> Timestamp(48 * p + 24)]

\* rows of a sheet with two pairs of columns: a count that is blank, zero or
\* negative; a count of 1 or 2 over every filling of the cells it covers; a
\* count above the pairs of columns
WorkRows ==
    {[item |-> Str(<<"survey">>), count |-> c, periods |-> <<FullPeriod(1), FullPeriod(2)>>] :
        c \in {Blank, Number(0), Number(-1), Number(3)}}
    \cup {[item |-> Str(<<"survey">>), count |-> Number(1), periods |-> <<p, FullPeriod(2)>>] :
        p \in PeriodCells(1)}
    \cup {[item |-> Str(<<"survey">>), count |-> Number(2), periods |-> <<p, q>>] :
        p \in PeriodCells(1), q \in PeriodCells(2)}

\* a sheet with no row or one row
SheetsNamed(name) ==
    {[name |-> name, rows |-> <<>>]}
    \cup {[name |-> name, rows |-> <<r>>] : r \in WorkRows}

RECURSIVE WorkbooksOf(_)
WorkbooksOf(n) ==
    IF n = 0 THEN {<<>>}
    ELSE {w \o <<sh>> : w \in WorkbooksOf(n - 1), sh \in SheetsNamed(SheetNames[n])}

Workbooks == UNION {WorkbooksOf(n) : n \in 1..MaxSheets}

InitPrepare ==
    /\ ScriptNotRun /\ SummaryIdle /\ Layout /\ ChartsIdle /\ IndivIdle
    /\ AppIdle
    /\ df_all \in Workbooks
    /\ prepared = <<>>
    /\ prepare_pc = "call"

NextPrepare == PrepareGanttData

SpecPrepare == InitPrepare /\ [][NextPrepare]_vars

\* ------------------------------------------------------------------------
\* app_individually.py: start-up (lines 115-170)
\* ------------------------------------------------------------------------
\* what load_latest_excel finds in the folder
NoXlsx == [found |-> "none", sheets |-> <<>>]
Unreadable == [found |-> "unreadable", sheets |-> <<>>]
Xlsx(sheets) == [found |-> "xlsx", sheets |-> sheets]

\* load_latest_excel(folder_path): <<df_all, error_message>>
load_latest_excel(dir) ==
    IF dir.found = "none" THEN <<PyNone, PyStr("no xlsx")>>
    ELSE IF dir.found = "unreadable" THEN <<PyNone, PyStr("read error")>>
    ELSE <<dir.sheets, PyNone>>

DataFrame(rows) == [kind |-> "DataFrame", rows |-> rows]

\* the task_df of process_task_summary(gantt_df, keyword)
TaskFrame(rows, keyword) == DataFrame(BoolIndex(rows, keyword))

\* the summaries process_task_summary(gantt_df, keyword) may return
Summaries(rows, keyword) ==
    IF BoolIndex(rows, keyword) = <<>> THEN {DataFrame(<<>>)}
    ELSE {DataFrame(SummaryOf(GroupbyTail1(Take(BoolIndex(rows, keyword), ord)))) :
            ord \in SortValues(BoolIndex(rows, keyword))}

SurveyKeyword == Str(<<"survey">>)
GeologyKeyword == Str(<<"geology">>)
QslopeKeyword == Str(<<"rock">>)

\* what initialize_data() may end with: the tuples it may return (lines 119
\* and 124), or the KeyError of prepare_gantt_data, or the KeyError of
\* gantt_df['Task'] on a frame built from no row
Returns(values) == [raised |-> "", values |-> values]
Raises(exception) == [raised |-> exception, values |-> <<>>]

initialize_data(dir) ==
    IF load_latest_excel(dir)[2] # PyNone
    THEN {Returns(<<PyNone, PyNone, PyNone, PyNone, PyNone,
                    load_latest_excel(dir)[2]>>)}
    ELSE IF prepare_gantt_data(dir.sheets).raised # "" THEN {Raises("KeyError")}
    ELSE IF prepare_gantt_data(dir.sheets).rows = <<>> THEN {Raises("KeyError")}
    ELSE {Returns(<<DataFrame(prepare_gantt_data(dir.sheets).rows), s1, s2, s3,
                    TaskFrame(prepare_gantt_data(dir.sheets).rows, SurveyKeyword),
                    TaskFrame(prepare_gantt_data(dir.sheets).rows, GeologyKeyword),
                    TaskFrame(prepare_gantt_data(dir.sheets).rows, QslopeKeyword)>>) :
            s1 \in Summaries(prepare_gantt_data(dir.sheets).rows, SurveyKeyword),
            s2 \in Summaries(prepare_gantt_data(dir.sheets).rows, GeologyKeyword),
            s3 \in Summaries(prepare_gantt_data(dir.sheets).rows, QslopeKeyword)}

\* the names on the left of line 127
NamesAtLine127 == 7

\* line 127: the call, and the unpacking of what it returns into the names;
\* a tuple of another length raises ValueError and binds nothing
Line127 ==
    /\ indiv_pc = "line127"
    /\ \E r \in initialize_data(folder) :
          IF r.raised # ""
          THEN /\ indiv_pc' = "raised" /\ indiv_raised' = r.raised
               /\ UNCHANGED indiv_names
          ELSE IF Len(r.values) # NamesAtLine127
          THEN /\ indiv_pc' = "raised" /\ indiv_raised' = "ValueError"
               /\ UNCHANGED indiv_names
          ELSE /\ indiv_pc' = "layout" /\ indiv_names' = r.values
               /\ UNCHANGED indiv_raised
    /\ UNCHANGED <<folder, indiv_figures>>
    /\ UNCHANGED not_indiv

\* create_gantt_chart(df, ...) if df is not None else {}
GraphFigure(df) ==
    IF df = PyNone THEN [kind |-> "dict", shows |-> <<>>]
    ELSE IF df.rows = <<>> THEN [kind |-> "no data", shows |-> <<>>]
    ELSE [kind |-> "timeline", shows |-> df.rows]

\* lines 133-170: survey_df, geology_df and qslope_df are names 5, 6 and 7
BuildLayout ==
    /\ indiv_pc = "layout"
    /\ indiv_figures' = <<GraphFigure(indiv_names[5]), GraphFigure(indiv_names[6]),
                          GraphFigure(indiv_names[7])>>
    /\ indiv_pc' = "serving"
    /\ UNCHANGED <<folder, indiv_names, indiv_raised>>
    /\ UNCHANGED not_indiv

Folders == {NoXlsx, Unreadable} \cup {Xlsx(w) : w \in Workbooks}

InitIndividually ==
    /\ ScriptNotRun /\ SummaryIdle /\ Layout /\ ChartsIdle /\ PrepareIdle
    /\ AppIdle
    /\ folder \in Folders
    /\ indiv_pc = "line127" /\ indiv_names = <<>>
    /\ indiv_figures = <<>> /\ indiv_raised = ""

NextIndividually == Line127 \/ BuildLayout

SpecIndividually == InitIndividually /\ [][NextIndividually]_vars

\* ------------------------------------------------------------------------
\* app.py: the globals, the page, and the callbacks update_gantt,
\* update_task_specific_gantt and reload_data.  The server answers requests
\* in threads, so a callback may run while reload_data is between two of its
\* lines.
\* ------------------------------------------------------------------------
\* df['Path'].unique(): the paths in the order of their first rows
RECURSIVE UniquePaths(_)
UniquePaths(rows) ==
    IF rows = <<>> THEN <<>>
    ELSE IF \E k \in 1..(Len(rows) - 1) : rows[k].Path = rows[Len(rows)].Path
    THEN UniquePaths(SubSeq(rows, 1, Len(rows) - 1))
    ELSE UniquePaths(SubSeq(rows, 1, Len(rows) - 1)) \o <<rows[Len(rows)].Path>>

\* len(px.colors.qualitative.Set3)
Set3Len == 12

\* {path: color_palette[i % len(color_palette)] for i, path in
\* enumerate(unique_paths)}: each path's place in the palette
ColorDict(paths) ==
    [kind |-> "dict",
     map |-> [p \in {paths[k] : k \in DOMAIN paths} |->
                ((CHOOSE k \in DOMAIN paths : paths[k] = p) - 1) % Set3Len]]

\* the scatter figure of no data
NoDataFigure(height) ==
    [kind |-> "no data", df |-> <<>>, title |-> [kind |-> "no data"],
     height |-> height, color_discrete_map |-> ColorDict(<<>>)]

\* create_gantt_chart of app.py (lines 87-128)
AppCreateGanttChart(df, title, height, colors) ==
    IF df = <<>> THEN NoDataFigure(height)
    ELSE [kind |-> "timeline", df |-> df, title |-> title, height |-> height,
          color_discrete_map |->
              IF colors = PyNone THEN ColorDict(UniquePaths(df)) ELSE colors]

\* update_gantt with the test of clickData before the test of selected_path
AppUpdateGantt_ClickFirst(trigger, path, click, gdf, colors) ==
    IF gdf = PyNone THEN NoDataFigure(600)
    ELSE IF trigger = "show-all.n_clicks"
    THEN AppCreateGanttChart(gdf.rows, DefaultTitle, 1000, colors)
    ELSE IF click # PyNone
    THEN AppCreateGanttChart(WhereEq(gdf.rows, "Task", click.points[1].y),
                             TaskTitle(click.points[1].y), 500, colors)
    ELSE IF Truthy(path)
    THEN AppCreateGanttChart(WhereEq(gdf.rows, "Path", path.s),
                             PathTitle(path.s), 1000, colors)
    ELSE AppCreateGanttChart(gdf.rows, DefaultTitle, 1000, colors)

\* update_gantt of app.py (lines 412-437), on the globals it reads
AppUpdateGantt(trigger, path, click, gdf, colors) ==
    IF gdf = PyNone THEN NoDataFigure(600)
    ELSE IF trigger = "show-all.n_clicks"
    THEN AppCreateGanttChart(gdf.rows, DefaultTitle, 1000, colors)
    ELSE IF Truthy(path)
    THEN AppCreateGanttChart(WhereEq(gdf.rows, "Path", path.s),
                             PathTitle(path.s), 1000, colors)
    ELSE IF click # PyNone
    THEN AppCreateGanttChart(WhereEq(gdf.rows, "Task", click.points[1].y),
                             TaskTitle(click.points[1].y), 500, colors)
    ELSE AppCreateGanttChart(gdf.rows, DefaultTitle, 1000, colors)

\* update_task_specific_gantt (lines 448-506), on the globals it reads
UpdateTaskSpecificGantt(path, dfs, colors) ==
    IF \E k \in DOMAIN dfs : dfs[k] = PyNone
    THEN [k \in DOMAIN dfs |-> NoDataFigure(600)]
    ELSE IF Truthy(path)
    THEN [k \in DOMAIN dfs |->
            AppCreateGanttChart(WhereEq(dfs[k].rows, "Path", path.s),
                                PathTitle(path.s), 600, colors)]
    ELSE [k \in DOMAIN dfs |->
            AppCreateGanttChart(dfs[k].rows, DefaultTitle, 600, colors)]

\* initialize_data() of app.py (lines 161-189): <<gantt_df, <<survey_df,
\* geology_df, qslope_df>>, error_message>> of the ten values it returns
AppInitializeData(dir) ==
    IF load_latest_excel(dir)[2] # PyNone
    THEN <<PyNone, <<PyNone, PyNone, PyNone>>, load_latest_excel(dir)[2]>>
    ELSE <<DataFrame(prepare_gantt_data(dir.sheets).rows),
           <<TaskFrame(prepare_gantt_data(dir.sheets).rows, SurveyKeyword),
             TaskFrame(prepare_gantt_data(dir.sheets).rows, GeologyKeyword),
             TaskFrame(prepare_gantt_data(dir.sheets).rows, QslopeKeyword)>>,
           PyNone>>

\* lines 195-200 and 533-536: the colours of the frame's paths
PathColorsOf(gdf) == ColorDict(UniquePaths(gdf.rows))

\* get_app_layout (lines 208-398): the page of the error, which has no
\* chart, or the page of the charts
ErrorPage == [kind |-> "absent", df |-> <<>>]
OnChartsPage == app_figure.kind # "absent"

\* the options of path-dropdown in the layout (lines 229-230)
LayoutOptions(gdf) == IF gdf = PyNone THEN <<>> ELSE UniquePaths(gdf.rows)

\* the browser loads the page: the layout is built from the globals, and on
\* the page of the charts both callbacks run once with nothing chosen
PageOf(gdf, dfs, colors, message) ==
    [options |-> IF message # PyNone THEN <<>> ELSE LayoutOptions(gdf),
     figure |-> IF message # PyNone THEN ErrorPage
                ELSE AppUpdateGantt(".", PyNone, PyNone, gdf, colors),
     task_figures |-> IF message # PyNone THEN <<>>
                      ELSE UpdateTaskSpecificGantt(PyNone, dfs, colors)]

LoadPage ==
    /\ reload_pc \in {"idle", "line530", "returned"}
    /\ app_selected_path' = PyNone
    /\ app_clickData' = PyNone
    /\ app_n_clicks' = 0
    /\ store_data' = "None"
    /\ dropdown_options' =
           PageOf(app_gantt_df, app_task_dfs, path_colors, error_message).options
    /\ app_triggered' = "."
    /\ app_figure' =
           PageOf(app_gantt_df, app_task_dfs, path_colors, error_message).figure
    /\ app_task_figures' =
           PageOf(app_gantt_df, app_task_dfs, path_colors, error_message).task_figures
    /\ \/ app_selected_path # PyNone \/ app_clickData # PyNone \/ app_n_clicks # 0
       \/ store_data # "None" \/ app_triggered # "."
    /\ UNCHANGED <<disk, app_globals, reload_pc>>
    /\ UNCHANGED not_app

\* the user picks or clears a path: both callbacks have the dropdown as Input
AppSelectPath ==
    /\ reload_pc \in {"idle", "line530", "returned"}
    /\ OnChartsPage
    /\ \E v \in {PyNone} \cup {PyStr(dropdown_options[k]) : k \in DOMAIN dropdown_options} :
          /\ v # app_selected_path
          /\ app_selected_path' = v
    /\ app_triggered' = "path-dropdown.value"
    /\ app_figure' = AppUpdateGantt("path-dropdown.value", app_selected_path',
                                    app_clickData, app_gantt_df, path_colors)
    /\ app_task_figures' =
           UpdateTaskSpecificGantt(app_selected_path', app_task_dfs, path_colors)
    /\ UNCHANGED <<disk, app_globals, app_clickData, app_n_clicks, store_data,
                   dropdown_options, reload_pc>>
    /\ UNCHANGED not_app

\* the user clicks a bar of the main chart
AppClickTask ==
    /\ reload_pc \in {"idle", "line530", "returned"}
    /\ \E k \in DOMAIN app_figure.df :
          app_clickData' = ClickOn(app_figure.df[k].Task)
    /\ app_triggered' = "gantt-chart.clickData"
    /\ app_figure' = AppUpdateGantt("gantt-chart.clickData", app_selected_path,
                                    app_clickData', app_gantt_df, path_colors)
    /\ UNCHANGED <<disk, app_globals, app_selected_path, app_n_clicks, store_data,
                   dropdown_options, reload_pc, app_task_figures>>
    /\ UNCHANGED not_app

\* the user presses show-all
AppShowAll ==
    /\ reload_pc \in {"idle", "line530", "returned"}
    /\ OnChartsPage
    /\ app_n_clicks < MaxClicks
    /\ app_n_clicks' = app_n_clicks + 1
    /\ app_triggered' = "show-all.n_clicks"
    /\ app_figure' = AppUpdateGantt("show-all.n_clicks", app_selected_path,
                                    app_clickData, app_gantt_df, path_colors)
    /\ UNCHANGED <<disk, app_globals, app_selected_path, app_clickData, store_data,
                   dropdown_options, reload_pc, app_task_figures>>
    /\ UNCHANGED not_app

\* reload_data, lines 518-528: the press of reload-btn or refresh-btn, and
\* the assignment of what initialize_data() returns to the globals
ReloadAssign ==
    /\ reload_pc = "idle"
    /\ app_gantt_df' = AppInitializeData(disk)[1]
    /\ app_task_dfs' = AppInitializeData(disk)[2]
    /\ error_message' = AppInitializeData(disk)[3]
    /\ reload_pc' = "line530"
    /\ UNCHANGED <<disk, path_colors, app_inputs, app_outputs>>
    /\ UNCHANGED not_app

\* reload_data, lines 530-542: the return of the error, or the new colours
\* and the return of the new options
ReloadReturn ==
    /\ reload_pc = "line530"
    /\ IF error_message # PyNone
       THEN /\ store_data' = "{}"
            /\ dropdown_options' = <<>>
            /\ UNCHANGED path_colors
       ELSE /\ path_colors' = PathColorsOf(app_gantt_df)
            /\ store_data' = "{timestamp}"
            /\ dropdown_options' = UniquePaths(app_gantt_df.rows)
    /\ reload_pc' = "returned"
    /\ UNCHANGED <<disk, app_gantt_df, app_task_dfs, error_message,
                   app_selected_path, app_clickData, app_n_clicks, app_outputs>>
    /\ UNCHANGED not_app

\* the new store-data reaches the browser, which asks for the callbacks that
\* have it as Input; a chosen path that is no longer an option is kept or
\* dropped by the dropdown.  The page of the error has no chart to update.
StoreDataChanged ==
    /\ reload_pc = "returned"
    /\ reload_pc' = "idle"
    /\ IF OnChartsPage
       THEN /\ \E v \in {app_selected_path} \cup
                        (IF \E k \in DOMAIN dropdown_options :
                                PyStr(dropdown_options[k]) = app_selected_path
                         THEN {} ELSE {PyNone}) :
                   app_selected_path' = v
            /\ app_triggered' = "store-data.data"
            /\ app_figure' = AppUpdateGantt("store-data.data", app_selected_path',
                                            app_clickData, app_gantt_df, path_colors)
            /\ app_task_figures' =
                   UpdateTaskSpecificGantt(app_selected_path', app_task_dfs,
                                           path_colors)
       ELSE UNCHANGED <<app_selected_path, app_outputs>>
    /\ UNCHANGED <<disk, app_globals, app_clickData, app_n_clicks, store_data,
                   dropdown_options>>
    /\ UNCHANGED not_app

\* ---- the folder ----
SheetOf(name, items) ==
    [name |-> name,
     rows |-> [k \in DOMAIN items |->
                 [item |-> Str(<<items[k]>>), count |-> Number(1),
                  periods |-> <<FullPeriod(k), FullPeriod(k + 1)>>]]]

\* no workbook, a workbook of the sheets A and B, and one of the sheets A and C
Disks ==
    {NoXlsx,
     Xlsx(<<SheetOf("A", <<"survey", "geology">>), SheetOf("B", <<"survey">>)>>),
     Xlsx(<<SheetOf("A", <<"survey">>), SheetOf("C", <<"rock">>)>>)}

\* somebody replaces or removes the workbook
ReplaceWorkbook ==
    /\ \E d \in Disks : d # disk /\ disk' = d
    /\ UNCHANGED <<app_globals, app_inputs, app_outputs, reload_pc>>
    /\ UNCHANGED not_app

\* lines 193-200 have run on the folder, and the browser has loaded the page
InitApp ==
    /\ ScriptNotRun /\ SummaryIdle /\ Layout /\ ChartsIdle /\ PrepareIdle
    /\ IndivIdle
    /\ disk \in Disks
    /\ app_gantt_df = AppInitializeData(disk)[1]
    /\ app_task_dfs = AppInitializeData(disk)[2]
    /\ error_message = AppInitializeData(disk)[3]
    /\ path_colors = IF app_gantt_df = PyNone THEN PyNone
                     ELSE PathColorsOf(app_gantt_df)
    /\ app_selected_path = PyNone
    /\ app_clickData = PyNone
    /\ app_n_clicks = 0
    /\ store_data = "None"
    /\ dropdown_options =
           PageOf(app_gantt_df, app_task_dfs, path_colors, error_message).options
    /\ app_triggered = "."
    /\ app_figure =
           PageOf(app_gantt_df, app_task_dfs, path_colors, error_message).figure
    /\ app_task_figures =
           PageOf(app_gantt_df, app_task_dfs, path_colors, error_message).task_figures
    /\ reload_pc = "idle"

NextApp ==
    \/ LoadPage \/ AppSelectPath \/ AppClickTask \/ AppShowAll
    \/ ReloadAssign \/ ReloadReturn \/ StoreDataChanged \/ ReplaceWorkbook

SpecApp == InitApp /\ [][NextApp]_vars

\* ------------------------------------------------------------------------
\* Properties
\* ------------------------------------------------------------------------
AfterSolve == pc \in {"step3", "step4", "step5", "judge", "done"}
AfterLoop == pc \in {"step4", "step5", "judge", "done"}
AfterTip == pc \in {"step5", "judge", "done"}

Count(xs, v) == Cardinality({p \in DOMAIN xs : xs[p] = v})

\* an even number of piles, every offset +x matched by an offset -x
SymmetricEven(xs) ==
    /\ Len(xs) % 2 = 0
    /\ \A p \in DOMAIN xs : Count(xs, xs[p]) = Count(xs, QNeg(xs[p]))

MirroredEqualPN ==
    \A p, q \in DOMAIN x_coords :
        x_coords[p] = QNeg(x_coords[q]) => QEq(PN_list[p], PN_list[q])

C1_Case ==
    /\ AfterLoop
    /\ SymmetricEven(x_coords)
    /\ theta = "0"
    /\ loads_inputs[3] = 0
    /\ ~fallback

\* C1 as claimed: symmetric offsets, theta = 0, M0 = 0, any H0, non-singular:
\* the rotation is 0 and mirrored piles carry the same axial force
C1_AsClaimed == C1_Case => (QSign(delta[3]) = 0 /\ MirroredEqualPN)

\* C1 amended: the same with no horizontal load or no coupling stiffness
\* (H0 = 0 or K2 = 0): the rotation is 0 and mirrored piles carry the same
\* axial force
C1_NoRotation ==
    (C1_Case /\ (loads_inputs[1] = 0 \/ stiffness_inputs[3] = 0))
        => (QSign(delta[3]) = 0 /\ MirroredEqualPN)

C1_Witness ==
    /\ pc = "done"
    /\ C1_Case
    /\ Len(x_coords) = 4
    /\ QSign(x_coords[1]) # 0
    /\ loads_inputs = <<0, 3, 0>>
    /\ stiffness_inputs[3] # 0
    /\ QSign(delta[3]) = 0
    /\ QSign(PN_list[1]) # 0
    /\ QEq(PN_list[1], PN_list[4])

Min(a, b) == IF a < b THEN a ELSE b

TipIs(standard, method, soils) ==
    /\ tip_condition.standard = standard
    /\ tip_condition.method = method
    /\ tip_condition.soil_type \in soils

\* C2: Japan_2017 / Bored gives min(110 N, 3300) with note "110N (Max 3300)"
\* for sand and clay, min(160 N, 8000) with note "160N (Max 8000)" for
\* gravel, for every N
C2_JapanBored ==
    /\ (AfterTip /\ TipIs("Japan_2017", "Bored", {"sand", "clay"}))
        => /\ QEq(qd, Q(Min(110 * tip_condition.N_val, 3300)))
           /\ qd_rule = "110N (Max 3300)"
    /\ (AfterTip /\ TipIs("Japan_2017", "Bored", {"gravel"}))
        => /\ QEq(qd, Q(Min(160 * tip_condition.N_val, 8000)))
           /\ qd_rule = "160N (Max 8000)"

Zero3 == <<QZero, QZero, QZero>>

\* C3: solve_structure never raises; a singular assembled matrix gives the
\* zero vector from the except branch, with that matrix; a non-singular one
\* never gives the fallback
C3_SingularFallback ==
    /\ pc # "raised"
    /\ (pc = "step3" /\ i = 0) =>
        K_matrix = K_mat(stiffness_inputs, x_coords, theta)
    /\ AfterSolve =>
        IF QSign(Det3(K_matrix)) = 0
        THEN fallback /\ delta = Zero3
        ELSE ~fallback

C3_Witness ==
    /\ pc = "done"
    /\ fallback
    /\ QSign(Det3(K_matrix)) = 0
    /\ delta = Zero3
    /\ stiffness_inputs[1] # 0
    /\ loads_inputs = <<1, 3, 1>>

\* the guards of the steps: the script can take a step
CanStep ==
    \/ pc \in {"step1", "step2", "step5", "judge"}
    \/ pc = "step3" /\ i <= Len(x_coords)
    \/ pc = "step4" /\ j <= Len(soil_layers)

\* C4: every run reaches the end with exactly one verdict printed: no step
\* raises, and the script can take a step until the verdict is printed
C4_Completes ==
    /\ pc # "raised"
    /\ pc = "done" => Len(verdict) = 1
    /\ pc # "done" => (verdict = <<>> /\ CanStep)

C4_Witness ==
    /\ pc = "done"
    /\ fallback
    /\ QSign(PN_max) = 0
    /\ Len(verdict) = 1

Doubled(loads) == <<2 * loads[1], 2 * loads[2], 2 * loads[3]>>

\* C5: the displacement for the doubled loads is twice the displacement for
\* the loads, with stiffness, offsets and angle fixed
C5_Doubling ==
    (pc = "step3" /\ i = 0) =>
        \A r \in {solve_structure(stiffness_inputs, x_coords, Doubled(loads_inputs),
                                  theta)} :
            /\ r.fallback = fallback
            /\ \A c \in 1..3 : QEq(r.sol[c], QMul(Q(2), delta[c]))

C5_Witness ==
    /\ pc = "step3" /\ i = 0
    /\ ~fallback
    /\ \A c \in 1..3 : QSign(delta[c]) # 0
    /\ theta # "0"
    /\ QEq(solve_structure(stiffness_inputs, x_coords, Doubled(loads_inputs),
                           theta).sol[1],
           QMul(Q(2), delta[1]))

\* C6: the returned matrix is symmetric, solved or fallen back
C6_Symmetric ==
    AfterSolve =>
        /\ K_matrix[1][2] = K_matrix[2][1]
        /\ K_matrix[1][3] = K_matrix[3][1]
        /\ K_matrix[2][3] = K_matrix[3][2]

C6_Witness ==
    /\ pc = "done"
    /\ QSign(K_matrix[1][2]) # 0
    /\ QSign(K_matrix[1][3]) # 0
    /\ QSign(K_matrix[2][3]) # 0
    /\ K_matrix[1][3] # K_matrix[2][3]
    /\ K_matrix[3][1] = K_matrix[1][3]

\* C7: fs >= 3 prints OK, otherwise fs >= 2 prints marginal, otherwise NG;
\* exactly one verdict; 3.0 is OK, 2.0 marginal, 1.99 NG
C7_Bands ==
    pc = "done" =>
        /\ Len(verdict) = 1
        /\ fs.k = "inf" => verdict = <<"OK">>
        /\ fs.k \in {"-inf", "nan"} => verdict = <<"NG">>
        /\ fs.k = "num" =>
            /\ QGe(fs.v, Q(3)) => verdict = <<"OK">>
            /\ (QLt(fs.v, Q(3)) /\ QGe(fs.v, Q(2))) => verdict = <<"marginal">>
            /\ QLt(fs.v, Q(2)) => verdict = <<"NG">>
            /\ QEq(fs.v, Frac(199, 100)) => verdict = <<"NG">>

C7_Witness ==
    /\ pc = "done"
    /\ fs.k = "num"
    /\ QEq(fs.v, Q(3))
    /\ verdict = <<"OK">>

RuleMatches ==
    \/ TipIs("Japan_2017", "Bored", {"sand", "clay", "gravel"})
    \/ TipIs("Taiwan_Building", "Bored", {"sand"})

\* C8: a combination that matches no rule gives (3000, "Default Fixed") for
\* every N, and no error
C8_DefaultFixed ==
    /\ pc # "raised"
    /\ (AfterTip /\ ~RuleMatches) => (qd = Q(3000) /\ qd_rule = "Default Fixed")

C8_Witness ==
    /\ pc = "done"
    /\ TipIs("Japan_2017", "Bored", {"rock"})
    /\ tip_condition.N_val = 50
    /\ qd = Q(3000)
    /\ qd_rule = "Default Fixed"

IsShipped ==
    /\ loads_inputs = ShippedLoads
    /\ stiffness_inputs = ShippedStiffness
    /\ x_coords = ShippedPiles
    /\ theta = ShippedTheta

\* |1000 v - t/100| <= 1% of t/100: v in metres, the target t in hundredths
\* of a millimetre
Within1Percent(v, t) ==
    /\ QLe(QMul(Q(1000), v), Frac(101 * t, 10000))
    /\ QGe(QMul(Q(1000), v), Frac(99 * t, 10000))

\* C9: the shipped configuration gives delta_x within 1% of 7.29 mm and
\* delta_y within 1% of 2.28 mm
C9_ShippedTargets ==
    (AfterSolve /\ IsShipped) =>
        /\ Within1Percent(delta[1], 729)
        /\ Within1Percent(delta[2], 228)

C9_Witness ==
    /\ pc = "done"
    /\ IsShipped
    /\ ~fallback
    /\ Within1Percent(delta[1], 729)
    /\ Within1Percent(delta[2], 228)

\* C10: get_qd_value("Japan_2017", "Bored", "sand", 50) is
\* (3300, "110N (Max 3300)")
C10_Sand50 ==
    (AfterTip /\ TipIs("Japan_2017", "Bored", {"sand"}) /\ tip_condition.N_val = 50)
        => (qd = Q(3300) /\ qd_rule = "110N (Max 3300)")

C10_Witness ==
    /\ pc = "step5"
    /\ TipIs("Japan_2017", "Bored", {"sand"})
    /\ tip_condition.N_val = 50
    /\ qd = Q(3300)
    /\ qd_rule = "110N (Max 3300)"

\* min(5 N, 200) for sand, min(10 N, 150) for any other type
TauClaimed(layer) ==
    IF layer.type = "sand" THEN Min(5 * layer.N, 200) ELSE Min(10 * layer.N, 150)

\* Ug * Li * tau summed over the first k layers
RECURSIVE SkinSum(_)
SkinSum(k) ==
    IF k = 0 THEN QZero
    ELSE QAdd(SkinSum(k - 1),
              QMul(Ug, QMul(soil_layers[k].Li, Q(TauClaimed(soil_layers[k])))))

\* C11: Rf is the sum over the layers of Ug * Li * tau, tau = min(5N, 200)
\* for sand and min(10N, 150) for any other type; after k passes of the loop
\* it holds the first k layers, and the loop ends with every layer counted
C11_SkinFriction ==
    /\ pc = "step4" => (j <= Len(soil_layers) /\ QEq(Rf, SkinSum(j)))
    /\ AfterTip => (j = Len(soil_layers) /\ QEq(Rf, SkinSum(Len(soil_layers))))

C11_Witness ==
    /\ pc = "done"
    /\ Len(soil_layers) = 3
    /\ soil_layers[1].type = "sand" /\ soil_layers[1].N = 41
    /\ soil_layers[2].type = "gravel"
    /\ soil_layers[3].type = "clay" /\ soil_layers[3].N = 14
    /\ QEq(Rf, QMul(Ug, Q(805)))

\* C12: Ru = Rf + qd * Ag; PN_max is the largest axial force over all the
\* piles of the layout; fs is Ru / PN_max (not a number of the reals when
\* PN_max is 0)
C12_Capacity ==
    /\ AfterTip => (QEq(Rp, QMul(qd, Ag)) /\ QEq(Ru, QAdd(Rf, QMul(qd, Ag))))
    /\ AfterLoop =>
        /\ Len(PN_list) = Len(x_coords)
        /\ \A p \in DOMAIN PN_list : QLe(PN_list[p], PN_max)
        /\ \E p \in DOMAIN PN_list : PN_list[p] = PN_max
    /\ pc \in {"judge", "done"} =>
        IF QSign(PN_max) # 0
        THEN fs.k = "num" /\ QEq(QMul(fs.v, PN_max), Ru)
        ELSE fs.k # "num"

C12_Witness ==
    /\ pc = "done"
    /\ Len(x_coords) = 4
    /\ printed # <<>>
    /\ \A r \in DOMAIN printed : QLt(printed[r][2], PN_max)
    /\ QEq(PN_list[3], PN_max)
    /\ QLt(PN_list[2], PN_max)
    /\ fs.k = "num"
    /\ QSign(Rf) > 0 /\ QSign(Rp) > 0
    /\ QEq(QMul(fs.v, PN_max), QAdd(Rf, Rp))

\* the state solve_structure returned to
Solved == pc = "step3" /\ i = 0

\* the pile count and the spring constants and angle of the claims
N == Q(Len(x_coords))
kv == Q(stiffness_inputs[1])
k1 == Q(stiffness_inputs[2])
k2 == Q(stiffness_inputs[3])
k3 == Q(stiffness_inputs[4])
k4 == Q(stiffness_inputs[5])
sin_t == NpSin(theta)
cos_t == NpCos(theta)

\* C13: Axx = N (k1 cos^2 + kv sin^2), Ayy = N (kv cos^2 + k1 sin^2),
\* Axy = N (kv - k1) sin cos, N being the number of offsets, which is also
\* the number of forces the per-pile loop collects
C13_CountScaled ==
    /\ Solved =>
        /\ QEq(K_matrix[1][1],
               QMul(N, QAdd(QMul(k1, QMul(cos_t, cos_t)), QMul(kv, QMul(sin_t, sin_t)))))
        /\ QEq(K_matrix[2][2],
               QMul(N, QAdd(QMul(kv, QMul(cos_t, cos_t)), QMul(k1, QMul(sin_t, sin_t)))))
        /\ QEq(K_matrix[1][2], QMul(N, QMul(QSub(kv, k1), QMul(sin_t, cos_t))))
    /\ pc = "step3" => Len(PN_list) = i
    /\ AfterLoop => Len(PN_list) = Len(x_coords)

C13_Witness ==
    /\ pc = "done"
    /\ Len(x_coords) = 3
    /\ x_coords[2] = x_coords[3]
    /\ x_coords[1] # x_coords[2]
    /\ theta # "0"
    /\ stiffness_inputs = <<2, 1, 1, 0, 2>>
    /\ K_matrix[1][1] = Frac(102, 25)
    /\ K_matrix[2][2] = Frac(123, 25)
    /\ K_matrix[1][2] = Frac(36, 25)
    /\ Len(PN_list) = 3

\* the sums of the first k offsets and of their squares
RECURSIVE SumX(_)
SumX(k) == IF k = 0 THEN QZero ELSE QAdd(SumX(k - 1), x_coords[k])

RECURSIVE SumX2(_)
SumX2(k) ==
    IF k = 0 THEN QZero ELSE QAdd(SumX2(k - 1), QMul(x_coords[k], x_coords[k]))

\* kv cos^2 + k1 sin^2
VerticalTerm == QAdd(QMul(kv, QMul(cos_t, cos_t)), QMul(k1, QMul(sin_t, sin_t)))

\* C14: Ax_a = sum (kv - k1) x sin cos - N k2 cos, Ay_a = sum (kv cos^2 +
\* k1 sin^2) x + N k2 sin, Aa_a = sum [(kv cos^2 + k1 sin^2) x^2 +
\* (k2 + k3) x sin] + N k4, at every angle
C14_PerPileConstants ==
    Solved =>
        /\ QEq(K_matrix[1][3],
               QSub(QMul(QMul(QSub(kv, k1), QMul(sin_t, cos_t)), SumX(Len(x_coords))),
                    QMul(N, QMul(k2, cos_t))))
        /\ QEq(K_matrix[2][3],
               QAdd(QMul(VerticalTerm, SumX(Len(x_coords))),
                    QMul(N, QMul(k2, sin_t))))
        /\ QEq(K_matrix[3][3],
               QAdd(QAdd(QMul(VerticalTerm, SumX2(Len(x_coords))),
                         QMul(QMul(QAdd(k2, k3), sin_t), SumX(Len(x_coords)))),
                    QMul(N, k4)))

C14_Witness ==
    /\ Solved
    /\ theta = "0"
    /\ stiffness_inputs = <<2, 1, 1, 0, 2>>
    /\ x_coords = <<Frac(-5, 4), Frac(5, 4), Frac(5, 4)>>
    /\ K_matrix[1][3] = Q(-3)
    /\ K_matrix[2][3] = Frac(5, 2)
    /\ K_matrix[3][3] = Frac(123, 8)

\* the local displacements of the pile at offset x
LocalX(x) ==
    QSub(QMul(delta[1], cos_t), QMul(QAdd(delta[2], QMul(delta[3], x)), sin_t))
LocalY(x) ==
    QAdd(QMul(delta[1], sin_t), QMul(QAdd(delta[2], QMul(delta[3], x)), cos_t))

\* C15: each pass of the loop, for the pile at offset x, gives
\* PNi = Kv d_yi, PHi = K1 d_xi - K2 alpha, Mti = -K3 d_xi + K4 alpha with
\* d_xi = delta_x cos - (delta_y + alpha x) sin and
\* d_yi = delta_x sin + (delta_y + alpha x) cos, the constants and the angle
\* being those given to solve_structure
C15_PileForces ==
    (pc = "step3" /\ i >= 1) =>
        /\ QEq(PN_list[i], QMul(kv, LocalY(x_coords[i])))
        /\ QEq(PHi, QSub(QMul(k1, LocalX(x_coords[i])), QMul(k2, delta[3])))
        /\ QEq(Mti, QSub(QMul(k4, delta[3]), QMul(k3, LocalX(x_coords[i]))))

C15_Witness ==
    /\ pc = "step3" /\ i = 2
    /\ theta # "0"
    /\ stiffness_inputs = <<2, 1, 1, 0, 2>>
    /\ QSign(delta[3]) # 0
    /\ QSign(x_coords[2]) # 0
    /\ QSign(PHi) # 0 /\ QSign(Mti) # 0
    /\ QSign(PN_list[2]) # 0
    /\ PN_list[2] # PN_list[1]
    /\ QEq(PN_list[2], QMul(kv, LocalY(x_coords[2])))

\* row r of K_matrix times the displacement
RowTimesDelta(r) ==
    QAdd(QAdd(QMul(K_matrix[r][1], delta[1]), QMul(K_matrix[r][2], delta[2])),
         QMul(K_matrix[r][3], delta[3]))

\* C16: for a non-singular K the returned displacement d satisfies K d = F
\* with F = (H0, V0, M0), and it is the solved vector, not the fallback
C16_SolvesSystem ==
    (Solved /\ QSign(Det3(K_matrix)) # 0) =>
        /\ ~fallback
        /\ \A r \in 1..3 : QEq(RowTimesDelta(r), Q(loads_inputs[r]))

C16_Witness ==
    /\ Solved
    /\ QSign(Det3(K_matrix)) # 0
    /\ loads_inputs = <<1, 3, 1>>
    /\ theta # "0"
    /\ \A c \in 1..3 : QSign(delta[c]) # 0
    /\ QEq(RowTimesDelta(1), Q(1))
    /\ QEq(RowTimesDelta(2), Q(3))
    /\ QEq(RowTimesDelta(3), Q(1))

\* C17: Taiwan_Building / Bored / sand gives qd = 7.5 * min(N, 50) * 9.81
\* with note "7.5N tf/m2", for every N
C17_TaiwanSand ==
    (AfterTip /\ TipIs("Taiwan_Building", "Bored", {"sand"})) =>
        /\ QEq(qd, QMul(QMul(Frac(15, 2), Q(Min(tip_condition.N_val, 50))),
                        Frac(981, 100)))
        /\ qd_rule = "7.5N tf/m2"

\* C18: no step of the script changes x_coords, the stiffness tuple, the
\* load list, soil_layers or tip_condition (nor theta and D)
C18_InputsKept == [][UNCHANGED inputs]_vars

C18_Witness ==
    /\ pc = "done"
    /\ Len(x_coords) = 4 /\ Len(PN_list) = 4
    /\ loads_inputs = <<1, 3, 1>>
    /\ stiffness_inputs = <<2, 1, 1, 0, 2>>
    /\ soil_layers = PlainLayers /\ j = 2
    /\ tip_condition = ShippedTip
    /\ qd_rule = "110N (Max 3300)"

\* C19: once process_task_summary has returned, every path with a row whose
\* task name contains the keyword has exactly one summary row, and that row is
\* the formatted matching row of the path with the latest start: a dated
\* matching row is never passed over for an earlier one or for a placeholder
Matching(p) ==
    {k \in DOMAIN gantt_df :
        /\ gantt_df[k].Path = p
        /\ StrContains(gantt_df[k].Task, task_keyword, FALSE)}

LatestStart(k, p) ==
    \A m \in Matching(p) :
        gantt_df[m].Start # NaT =>
            /\ gantt_df[k].Start # NaT
            /\ gantt_df[m].Start.hours <= gantt_df[k].Start.hours

C19_LatestStart ==
    summary_pc = "returned" =>
        \A p \in Paths :
            Matching(p) # {} =>
                /\ Cardinality({k \in DOMAIN summary : summary[k].trail = p}) = 1
                /\ \A k \in DOMAIN summary :
                      summary[k].trail = p =>
                          \E m \in Matching(p) :
                              /\ LatestStart(m, p)
                              /\ summary[k] = SummaryRow(gantt_df[m])

\* the same, over frames in which no matching row is a placeholder
NoMatchingPlaceholder ==
    \A p \in Paths : \A k \in Matching(p) : gantt_df[k].Start # NaT

C19_DatedOnly == NoMatchingPlaceholder => C19_LatestStart

\* C20: once reset-path has been pressed with a path chosen, and until the
\* dropdown is changed again, the chart update_gantt returns is not the chart
\* filtered by that path
FilteredBy(path) == figure.title = PathTitle(path.s)

C20_ResetClears ==
    Truthy(path_before_reset) => ~FilteredBy(path_before_reset)

\* the press itself does return the chart of every row
C20_ResetShowsAll ==
    [][reset_clicks' # reset_clicks => figure' = FullChart]_vars

\* C21: once plot_gantt_chart has returned, if the completion column was given
\* as percent numbers (its largest value is above 1), every value p between 0
\* and 100 is stored as p / 100, the label of a completed bar is that
\* percentage, and every stored value lies between 0 and 1
RawCompletion(k) == ToNumericFillna(xlsx[k].completion)

GivenAsPercent == \E k \in DOMAIN xlsx : QLt(Q(1), RawCompletion(k))

InUnitRange(a) == QLe(QZero, a) /\ QLe(a, Q(1))

C21_StoredInRange ==
    mpl_pc = "returned" => \A k \in DOMAIN xlsx : InUnitRange(mpl.completion[k])

C21_PercentToFraction ==
    mpl_pc = "returned" =>
        /\ C21_StoredInRange
        /\ GivenAsPercent =>
              \A k \in DOMAIN xlsx :
                  InUnitRange(QDiv(RawCompletion(k), Q(100))) =>
                      /\ mpl.completion[k] = QDiv(RawCompletion(k), Q(100))
                      /\ (mpl.bars[k].drawn /\ mpl.bars[k].completed.drawn) =>
                            mpl.bars[k].completed.text = PyInt(RawCompletion(k))

\* the same conversion in create_gantt_figure, which does not clip first
C21_DashConverts ==
    (plotly_pc = "returned" /\ GivenAsPercent) =>
        \A k \in DOMAIN xlsx :
            plotly.completion[k] = QDiv(RawCompletion(k), Q(100))

\* C22: once plot_gantt_chart has returned, a row whose end date is before
\* its start date has duration 1, and a row with a missing start or end date
\* has duration 0, no bar, and its tick on the Y axis
EndsBeforeStart(row) ==
    /\ row.start_date # NaT /\ row.end_date # NaT
    /\ Ordinal(row.end_date) < Ordinal(row.start_date)

DateMissing(row) == row.start_date = NaT \/ row.end_date = NaT

HasTick(k) == \E t \in DOMAIN mpl.yticks : mpl.yticks[t] = k

C22_MissingDates ==
    mpl_pc = "returned" =>
        \A k \in DOMAIN xlsx :
            DateMissing(xlsx[k]) =>
                mpl.duration[k] = 0 /\ ~mpl.bars[k].drawn /\ HasTick(k)

C22_Durations ==
    mpl_pc = "returned" =>
        /\ C22_MissingDates
        /\ \A k \in DOMAIN xlsx :
              EndsBeforeStart(xlsx[k]) => mpl.duration[k] = 1

\* C23: every quarter drawn by plot_gantt_chart and every quarter drawn by
\* create_gantt_figure has the colour index given by the parity of its
\* distance from 2024 Q4 (index 0 for 2024 Q4), and neighbouring quarters
\* have different indices
Parity(quarter) == QuartersDiff(quarter.y, quarter.m) % 2

ByParity(quarters) ==
    \A q \in DOMAIN quarters : quarters[q].color_idx_bg = Parity(quarters[q].x0)

Alternate(quarters) ==
    \A q \in DOMAIN quarters :
        q > 1 => quarters[q].color_idx_bg # quarters[q - 1].color_idx_bg

C23_ProgressByParity ==
    mpl_pc = "returned" => ByParity(mpl.spans) /\ Alternate(mpl.spans)

C23_DashAlternates == plotly_pc = "returned" => Alternate(plotly.shapes)

C23_SameQuarterColours ==
    /\ C23_ProgressByParity
    /\ plotly_pc = "returned" => ByParity(plotly.shapes) /\ Alternate(plotly.shapes)

\* the same, when no start date is before 2024 Q4
NoneBeforeReference ==
    \A k \in DOMAIN xlsx :
        xlsx[k].start_date # NaT =>
            Ordinal(xlsx[k].start_date) >= Ordinal(reference_date)

C23_FromReferenceOn == NoneBeforeReference => C23_SameQuarterColours

\* C28: once prepare_gantt_data has returned a frame, the rows emitted for
\* each row of each sheet are one placeholder (Start and Finish NaT) when its
\* count is blank or not positive, and otherwise the periods i of 1..count
\* with both cells present, in increasing i, and no other; in every emitted
\* row Start is missing exactly when Finish is, and Path is the sheet's name
EmittedFor(sheet_name) ==
    SelectSeq(prepared.rows, LAMBDA g : g.Path = sheet_name)

PresentPeriods(row) ==
    {p \in 1..num_times(row) :
        row.periods[p].start # NaT /\ row.periods[p].finish # NaT}

\* the k-th period of the row, counting only the present ones
KthPresent(row, k) ==
    CHOOSE p \in PresentPeriods(row) :
        Cardinality({q \in PresentPeriods(row) : q <= p}) = k

AsClaimed(row, emitted) ==
    IF row.count = Blank \/ row.count.v <= 0
    THEN /\ Len(emitted) = 1
         /\ emitted[1].Start = NaT /\ emitted[1].Finish = NaT
         /\ emitted[1].Task = row.item
    ELSE /\ Len(emitted) = Cardinality(PresentPeriods(row))
         /\ \A k \in DOMAIN emitted :
               /\ emitted[k].Start = row.periods[KthPresent(row, k)].start
               /\ emitted[k].Finish = row.periods[KthPresent(row, k)].finish
               /\ emitted[k].Task = row.item

Returned == prepare_pc = "returned" /\ prepared.raised = ""

LoadFails == folder.found # "xlsx"

EmptyDict == [kind |-> "dict", shows |-> <<>>]

C24_FailedLoadStartsUp ==
    (LoadFails /\ indiv_pc # "line127") =>
        /\ indiv_pc # "raised"
        /\ Len(indiv_names) = NamesAtLine127
        /\ \A k \in DOMAIN indiv_names : indiv_names[k] = PyNone
        /\ indiv_pc = "serving" =>
              \A k \in DOMAIN indiv_figures : indiv_figures[k] = EmptyDict


\* ---- C25 ----
\* the rows of the global gantt_df, none when it is None
GlobalRows == IF app_gantt_df = PyNone THEN <<>> ELSE app_gantt_df.rows
PathChosen == Truthy(app_selected_path)
SingleTaskView == app_figure.title.kind = "task" /\ app_figure.height = 500

\* C25: with no reload in flight, the rows the main chart shows follow the
\* precedence: every row when show-all triggered the callback; otherwise the
\* rows of the chosen path, whatever clickData holds, and never as the
\* single-task view; otherwise the rows of the clicked task, as the
\* single-task view; otherwise every row
C25_Precedence ==
    (reload_pc = "idle" /\ OnChartsPage) =>
        /\ app_triggered = "show-all.n_clicks" => app_figure.df = GlobalRows
        /\ (app_triggered # "show-all.n_clicks" /\ PathChosen) =>
               /\ app_figure.df = WhereEq(GlobalRows, "Path", app_selected_path.s)
               /\ ~SingleTaskView
        /\ (app_triggered # "show-all.n_clicks" /\ ~PathChosen
                /\ app_clickData # PyNone) =>
               /\ app_figure.df =
                      WhereEq(GlobalRows, "Task", app_clickData.points[1].y)
               /\ app_figure.df # <<>> => SingleTaskView
        /\ (app_triggered # "show-all.n_clicks" /\ ~PathChosen
                /\ app_clickData = PyNone) => app_figure.df = GlobalRows

\* a bar was clicked while a path is chosen, and the chart is that path's
C25_Witness ==
    /\ reload_pc = "idle" /\ PathChosen /\ app_clickData # PyNone
    /\ app_triggered = "gantt-chart.clickData"
    /\ app_figure.df # <<>> /\ app_figure.df # GlobalRows
    /\ app_figure.title = PathTitle(app_selected_path.s)

\* a step that runs the callback for show-all leaves the chosen path alone
C25_ShowAllKeepsSelection ==
    [][app_n_clicks' = app_n_clicks + 1 =>
          /\ app_selected_path' = app_selected_path
          /\ app_clickData' = app_clickData]_vars

\* after show-all with a path chosen, the chart goes back to the path's rows
\* at the next click
C25_PathAgain ==
    [][(app_triggered = "show-all.n_clicks" /\ PathChosen /\ reload_pc = "idle"
          /\ app_triggered' = "gantt-chart.clickData")
       => app_figure'.df = WhereEq(GlobalRows, "Path", app_selected_path.s)]_vars

\* ---- C26 ----
Coloured(fig) ==
    \A k \in DOMAIN fig.df : fig.df[k].Path \in DOMAIN fig.color_discrete_map.map

\* C26: every chart drawn has, in the path_colors it was drawn with, a colour
\* for the path of each row it shows
C26_ColourForEveryPath ==
    OnChartsPage =>
        /\ Coloured(app_figure)
        /\ \A n \in DOMAIN app_task_figures : Coloured(app_task_figures[n])

\* with no reload in flight the global path_colors covers the global gantt_df
C26_CoveredWhenIdle ==
    (reload_pc = "idle" /\ app_gantt_df # PyNone /\ path_colors # PyNone) =>
        \A k \in DOMAIN app_gantt_df.rows :
            app_gantt_df.rows[k].Path \in DOMAIN path_colors.map

\* ---- C27 ----
IsZero(a) == QSign(a) = 0
DividedByZero(f) == f.k \in {"inf", "-inf", "nan"}

\* C27: on the fallback of solve_structure every pile's axial force, shear
\* force and head moment is 0, the largest axial force PN_max is 0, and fs
\* is Ru divided by zero: inf for a positive Ru, never a number
C27_FallbackZeroDemand ==
    fallback =>
        /\ \A k \in DOMAIN PN_list : IsZero(PN_list[k])
        /\ IsZero(PHi) /\ IsZero(Mti)
        /\ \A k \in DOMAIN printed :
               IsZero(printed[k][2]) /\ IsZero(printed[k][3]) /\ IsZero(printed[k][4])
        /\ AfterLoop => IsZero(PN_max)
        /\ pc \in {"judge", "done"} =>
               /\ DividedByZero(fs)
               /\ QSign(Ru) > 0 => fs = Inf

\* a run on the fallback, of several piles off the axis and loads that are
\* not zero, has ended with fs = Ru / 0
C27_Witness ==
    /\ fallback /\ pc = "done"
    /\ Len(PN_list) >= 2 /\ Len(printed) >= 1
    /\ \E k \in DOMAIN x_coords : ~IsZero(x_coords[k])
    /\ stiffness_inputs[1] # 0 /\ loads_inputs[2] # 0
    /\ IsZero(PN_max) /\ QSign(Ru) > 0 /\ fs = Inf
====
